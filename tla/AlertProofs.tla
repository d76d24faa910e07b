----------------------------- MODULE AlertProofs -----------------------------
(***************************************************************************)
(* The safety properties of the parts of Observatory that tell of          *)
(* something, proved of the composition that the run checks: the policies, *)
(* the digests, the grants of the chat, the alerts and the balances.  Each *)
(* part has a section: its inductive invariant, one lemma per action, the  *)
(* theorem.                                                                *)
(***************************************************************************)
EXTENDS Observatory, SequenceTheorems, FiniteSetTheorems, WellFoundedInduction, TLAPS

\* A set of numbers has a least one.
LEMMA LeastOf ==
  ASSUME NEW T \in SUBSET Nat, T # {}
  PROVE  \E x \in T : \A y \in T : x <= y
<1> DEFINE R == {ss \in Nat \X Nat : ss[1] < ss[2]}
<1>1. IsWellFoundedOn(R, Nat)
  BY NatLessThanWellFounded DEF OpToRel
<1> HIDE DEF R
<1>2. PICK x \in T : \A y \in T : ~(<<y, x>> \in R)
  BY <1>1, WFMin
<1>3. \A y \in T : ~(y < x)
  <2> SUFFICES ASSUME NEW y \in T, y < x PROVE FALSE
    OBVIOUS
  <2>1. <<y, x>> \in R
    BY DEF R
  <2> QED
    BY <1>2, <2>1
<1> QED
  BY <1>3

(***************************************************************************)
(* The notification policies                                               *)
(***************************************************************************)

\* A row that is stored is a whole policy, with a window for its quiet hours.
PolicyRows == {p \in Policies!Policies : Policies!validateAtomicQuietHours(p)}
PolicyInv == rules \in [Policies!Targets -> PolicyRows \cup {Policies!NoRule}]

\* A rule that may be sent resolves to a policy.
LEMMA MergeTyped ==
  ASSUME NEW b \in Policies!Policies, NEW r \in Policies!Sent
  PROVE  Policies!mergePolicyRule(b, r) \in Policies!Policies
<1> USE DEF Policies!Policies, Policies!Sent, Policies!Windows
<1>1. Policies!Field(b.min, r.min, Policies!BASE_GLOBAL_POLICY.min) \in {"info", "error"}
  BY DEF Policies!Field, Policies!BASE_GLOBAL_POLICY
<1>2. Policies!Field(b.quiet, r.quiet, FALSE) \in BOOLEAN
  BY DEF Policies!Field
<1>3. (IF r.window = "unset" THEN b.window ELSE r.window) \in {"null", "given"}
  OBVIOUS
<1>4. Policies!Field(b.bypass, r.bypass, TRUE) \in BOOLEAN
  BY DEF Policies!Field
<1> QED
  BY <1>1, <1>2, <1>3, <1>4 DEF Policies!mergePolicyRule

\* The rule that a row is read as resolves to the row, whatever it is laid over.
LEMMA RowRestored ==
  ASSUME NEW b, NEW p \in Policies!Policies
  PROVE  Policies!mergePolicyRule(b, Policies!AsRule(p)) = p
<1> USE DEF Policies!Policies, Policies!Windows
<1> DEFINE r == Policies!AsRule(p)
<1>1. /\ r.min = p.min /\ r.window = p.window
      /\ r.quiet = (IF p.quiet THEN "yes" ELSE "no")
      /\ r.bypass = (IF p.bypass THEN "yes" ELSE "no")
  BY DEF Policies!AsRule
<1> HIDE DEF r
<1>2. Policies!Field(b.min, r.min, Policies!BASE_GLOBAL_POLICY.min) = p.min
  BY <1>1 DEF Policies!Field
<1>3. Policies!Field(b.quiet, r.quiet, FALSE) = p.quiet
  BY <1>1 DEF Policies!Field
<1>4. Policies!Field(b.bypass, r.bypass, TRUE) = p.bypass
  BY <1>1 DEF Policies!Field
<1>5. (IF r.window = "unset" THEN b.window ELSE r.window) = p.window
  BY <1>1
<1>6. p = [min |-> p.min, quiet |-> p.quiet, window |-> p.window, bypass |-> p.bypass]
  OBVIOUS
<1>7. Policies!mergePolicyRule(b, r) = p
  BY <1>2, <1>3, <1>4, <1>5, <1>6 DEF Policies!mergePolicyRule
<1> QED
  BY <1>7 DEF r

\* The defaults keep the rule of the quiet hours.
LEMMA DefaultsStored ==
  ASSUME NEW context
  PROVE  Policies!Defaults(context) \in PolicyRows
<1> USE DEF Policies!Policies, Policies!Windows, Policies!validateAtomicQuietHours
<1>1. Policies!BASE_GLOBAL_POLICY \in PolicyRows
  BY DEF PolicyRows, Policies!BASE_GLOBAL_POLICY
<1>2. Policies!mergePolicyRule(Policies!BASE_GLOBAL_POLICY, Policies!EVENT_DEFAULT_POLICIES)
        = [min |-> "info", quiet |-> FALSE, window |-> "null", bypass |-> FALSE]
  BY DEF Policies!mergePolicyRule, Policies!Field, Policies!BASE_GLOBAL_POLICY,
         Policies!EVENT_DEFAULT_POLICIES
<1>3. [min |-> "info", quiet |-> FALSE, window |-> "null", bypass |-> FALSE] \in PolicyRows
  BY DEF PolicyRows
<1> QED
  BY <1>1, <1>2, <1>3 DEF Policies!Defaults

\* A row that matches replaces what it is laid over, any other leaves it.
LEMMA LayerReplaces ==
  ASSUME PolicyInv, NEW b \in PolicyRows, NEW t \in Policies!Targets, NEW context
  PROVE  /\ Policies!Layer(b, rules, t, context) \in PolicyRows
         /\ IF rules[t] # Policies!NoRule /\ Policies!ruleMatchesContext(t, context)
            THEN Policies!Layer(b, rules, t, context) = rules[t]
            ELSE Policies!Layer(b, rules, t, context) = b
<1>1. rules[t] \in PolicyRows \cup {Policies!NoRule}
  BY DEF PolicyInv
<1>2. CASE rules[t] # Policies!NoRule /\ Policies!ruleMatchesContext(t, context)
  <2>1. rules[t] \in PolicyRows /\ rules[t] \in Policies!Policies
    BY <1>1, <1>2 DEF PolicyRows
  <2>2. Policies!Layer(b, rules, t, context) = rules[t]
    BY <1>2, <2>1, RowRestored DEF Policies!Layer
  <2> QED
    BY <1>2, <2>1, <2>2
<1>3. CASE ~(rules[t] # Policies!NoRule /\ Policies!ruleMatchesContext(t, context))
  BY <1>3 DEF Policies!Layer
<1> QED
  BY <1>2, <1>3

\* The row of the most specific scope decides alone, and no resolution throws, in
\* every behaviour of the composition.
THEOREM SpecificRowDecidesHolds == Spec => []SpecificRowDecides
<1>1. Init => PolicyInv
  BY DEF Init, Policies!Init, PolicyInv
<1>2. PolicyInv /\ [Next]_vars => PolicyInv'
  <2> SUFFICES ASSUME PolicyInv, [Policies!Next]_(Policies!vars) PROVE PolicyInv'
    BY DEF Next, vars, Only, Policies!vars
  <2>1. CASE UNCHANGED Policies!vars
    BY <2>1 DEF PolicyInv, Policies!vars
  <2>2. ASSUME NEW t \in Policies!Targets, Policies!Put(t) PROVE PolicyInv'
    <3>1. PICK p \in Policies!Snapshots[t] : rules' = [rules EXCEPT ![t] = p]
      BY <2>2 DEF Policies!Put, Policies!upsertPolicy
    <3>2. p \in PolicyRows
      <4>1. PICK r \in Policies!Sent :
              /\ p = Policies!mergePolicyRule(Policies!Defaults(Policies!policyContext(t)), r)
              /\ Policies!validateAtomicQuietHours(p)
        BY <3>1 DEF Policies!Snapshots
      <4>2. Policies!Defaults(Policies!policyContext(t)) \in Policies!Policies
        BY DefaultsStored DEF PolicyRows
      <4> QED
        BY <4>1, <4>2, MergeTyped DEF PolicyRows
    <3> QED
      BY <3>1, <3>2 DEF PolicyInv
  <2>3. ASSUME NEW t \in Policies!Targets, Policies!Delete(t) PROVE PolicyInv'
    BY <2>3 DEF PolicyInv, Policies!Delete
  <2> QED
    BY <2>1, <2>2, <2>3 DEF Policies!Next
<1>3. PolicyInv => SpecificRowDecides
  <2> SUFFICES ASSUME PolicyInv, NEW context \in Policies!Contexts
               PROVE  /\ Policies!validateAtomicQuietHours(
                           Policies!resolveEffectivePolicy(rules, context))
                      /\ LET matching == {i \in DOMAIN Policies!Scopes :
                               /\ rules[Policies!Scopes[i]] # Policies!NoRule
                               /\ Policies!ruleMatchesContext(Policies!Scopes[i], context)}
                         IN  \A i \in matching, severity \in DOMAIN Policies!SEVERITY_LEVELS :
                               (\A j \in matching : j <= i) =>
                                 (Policies!Delivers(rules, context, severity)
                                  <=> Policies!evaluateNotificationDispatch(
                                        rules[Policies!Scopes[i]], severity))
    BY DEF SpecificRowDecides, Policies!SpecificRowDecides
  <2> DEFINE matches(i) == /\ rules[Policies!Scopes[i]] # Policies!NoRule
                           /\ Policies!ruleMatchesContext(Policies!Scopes[i], context)
             start == Policies!Defaults(context)
             first == Policies!Layer(start, rules, Policies!Scopes[1], context)
             second == Policies!Layer(first, rules, Policies!Scopes[2], context)
             third == Policies!Layer(second, rules, Policies!Scopes[3], context)
  <2>1. /\ DOMAIN Policies!Scopes = 1 .. 3
        /\ \A i \in 1 .. 3 : Policies!Scopes[i] \in Policies!Targets
    BY DEF Policies!Scopes, Policies!Targets
  <2>2. start \in PolicyRows
    BY DefaultsStored
  <2>3. first \in PolicyRows /\ first = IF matches(1) THEN rules[Policies!Scopes[1]] ELSE start
    BY <2>1, <2>2, LayerReplaces
  <2>4. second \in PolicyRows /\ second = IF matches(2) THEN rules[Policies!Scopes[2]] ELSE first
    BY <2>1, <2>3, LayerReplaces
  <2>5. third \in PolicyRows /\ third = IF matches(3) THEN rules[Policies!Scopes[3]] ELSE second
    BY <2>1, <2>4, LayerReplaces
  <2>6. Policies!resolveEffectivePolicy(rules, context) = third
    BY DEF Policies!resolveEffectivePolicy
  <2>7. \A i \in 1 .. 3 : matches(i) /\ (\A j \in 1 .. 3 : matches(j) => j <= i)
                            => third = rules[Policies!Scopes[i]]
    <3> HIDE DEF matches, first, second, third, start
    <3> SUFFICES ASSUME NEW i \in 1 .. 3, matches(i), \A j \in 1 .. 3 : matches(j) => j <= i
                 PROVE  third = rules[Policies!Scopes[i]]
      OBVIOUS
    <3>1. CASE i = 1
      BY <3>1, <2>3, <2>4, <2>5
    <3>2. CASE i = 2
      BY <3>2, <2>4, <2>5
    <3>3. CASE i = 3
      BY <3>3, <2>5
    <3> QED
      BY <3>1, <3>2, <3>3
  <2>8. Policies!validateAtomicQuietHours(Policies!resolveEffectivePolicy(rules, context))
    BY <2>5, <2>6 DEF PolicyRows
  <2>9. ASSUME NEW i \in 1 .. 3, NEW severity, matches(i),
               \A j \in 1 .. 3 : matches(j) => j <= i
        PROVE  Policies!Delivers(rules, context, severity)
                 <=> Policies!evaluateNotificationDispatch(rules[Policies!Scopes[i]], severity)
    BY <2>6, <2>7, <2>9 DEF Policies!Delivers
  <2> HIDE DEF first, second, third, start
  <2> QED
    BY <2>1, <2>8, <2>9
<1> QED
  BY <1>1, <1>2, <1>3, PTL DEF Spec

(***************************************************************************)
(* The digests                                                             *)
(***************************************************************************)

\* The events are kept for longer than an interval, and than the clock is ever
\* set back: with the intervals of a week that a schedule may have and a
\* retention of a day an old slot could be claimed again.
EventsOutlive ==
    /\ Hour \in Nat \ {0} /\ Day \in Nat \ {0} /\ Interval \in Nat \ {0, 1}
    /\ Retention \in Nat /\ MaxBack \in Nat
    /\ Retention + 1 >= Interval + 2 * MaxBack

\* A claim is one of a slot in the time in which the slot is due.
DueClaims == {c \in [key : {"hourly", "daily", "interval"} \X Nat, at : Nat] :
                /\ c.key = Digests!getDigestSlotKey(c.key[1], c.at)
                /\ c.key[1] = "hourly" => c.at % Hour < 2
                /\ c.key[1] = "daily" => c.at % Day \in {2, 3}}

\* The watermark is the last claim, and the table has every claim but those that
\* are so old that the clock cannot come back to their slot.
DigestInv ==
    /\ clock \in Nat /\ back \in 0 .. MaxBack
    /\ schedule \in Digests!Schedules
    /\ claims \in Seq(DueClaims)
    /\ IF claims = <<>> THEN watermark = Digests!NoWatermark
                        ELSE watermark = claims[Len(claims)]
    /\ \A i \in DOMAIN claims : \/ claims[i] \in digests
                                \/ claims[i].at + Retention < clock + 2 * back
    /\ \A i, j \in DOMAIN claims : i < j =>
         claims[i].key # claims[j].key /\ claims[i].at < claims[j].at

\* The slots are as long as they are named.
LEMMA SlotBounds ==
  ASSUME NEW t \in Nat, NEW n \in Nat \ {0}
  PROVE  /\ t \div n \in Nat
         /\ n * (t \div n) <= t /\ t < n * (t \div n) + n
         /\ n * (t \div n) \in Nat
         /\ t % n \in Nat
         /\ t = n * (t \div n) + (t % n)
<1>1. n \in Nat /\ n > 0
  OBVIOUS
<1>2. t \div n \in Nat
  BY <1>1
<1>3. n * (t \div n) <= t /\ t < n * (t \div n) + n
  BY <1>1
<1>4. n * (t \div n) \in Nat
  BY <1>1, <1>2
<1>5. t % n \in Nat
  BY <1>1
<1>6. t = n * (t \div n) + (t % n)
  BY <1>1
<1> QED
  BY <1>2, <1>3, <1>4, <1>5, <1>6

\* Two times of one slot lie as far apart as in the slot, and less than its length.
LEMMA SameSlot ==
  ASSUME NEW t \in Nat, NEW u \in Nat, NEW n \in Nat \ {0}, t \div n = u \div n
  PROVE  u - t < n /\ u - t = (u % n) - (t % n)
<1> DEFINE q == n * (t \div n)
<1>1. q \in Nat /\ q <= t /\ t < q + n /\ t = q + (t % n) /\ t % n \in Nat
  BY SlotBounds
<1>2. q <= u /\ u < q + n /\ u = q + (u % n) /\ u % n \in Nat
  BY SlotBounds
<1> HIDE DEF q
<1> QED
  BY <1>1, <1>2

\* Two times of one slot at which its digest is due are less than an interval apart.
LEMMA SlotsApart ==
  ASSUME EventsOutlive, NEW c \in DueClaims, NEW d \in DueClaims, c.key = d.key
  PROVE  d.at - c.at < Interval
<1>1. /\ Hour \in Nat \ {0} /\ Day \in Nat \ {0} /\ Interval \in Nat \ {0}
      /\ Interval \in Nat /\ Interval >= 2
  BY DEF EventsOutlive
<1>2. /\ c.at \in Nat /\ d.at \in Nat
      /\ c.key[1] \in {"hourly", "daily", "interval"}
  BY DEF DueClaims
<1>3. CASE c.key[1] = "interval"
  <2>1. c.at \div Interval = d.at \div Interval
    BY <1>3 DEF DueClaims, Digests!getDigestSlotKey
  <2> QED
    BY <1>1, <1>2, <2>1, SameSlot
<1>4. CASE c.key[1] = "hourly"
  <2>1. c.at \div Hour = d.at \div Hour /\ c.at % Hour < 2 /\ d.at % Hour < 2
    BY <1>4 DEF DueClaims, Digests!getDigestSlotKey
  <2>2. c.at % Hour \in Nat /\ d.at % Hour \in Nat
    BY <1>1, <1>2, SlotBounds
  <2>3. d.at - c.at = (d.at % Hour) - (c.at % Hour)
    BY <1>1, <1>2, <2>1, SameSlot
  <2>4. (d.at % Hour) - (c.at % Hour) < 2
    BY <2>1, <2>2
  <2> QED
    BY <1>1, <1>2, <2>3, <2>4
<1>5. CASE c.key[1] = "daily"
  <2>1. c.at \div Day = d.at \div Day /\ c.at % Day \in {2, 3} /\ d.at % Day \in {2, 3}
    BY <1>5 DEF DueClaims, Digests!getDigestSlotKey
  <2>2. d.at - c.at = (d.at % Day) - (c.at % Day)
    BY <1>1, <1>2, <2>1, SameSlot
  <2>3. (d.at % Day) - (c.at % Day) < 2
    BY <2>1
  <2> QED
    BY <1>1, <1>2, <2>2, <2>3
<1> QED
  BY <1>2, <1>3, <1>4, <1>5

\* A new claim is of no slot that was claimed before.
LEMMA ClaimKept ==
  ASSUME EventsOutlive, DigestInv, Digests!ProcessDueDigests
  PROVE  DigestInv'
<1> DEFINE key == Digests!getDigestSlotKey(schedule, clock)
           claim == [key |-> key, at |-> clock]
<1>1. /\ watermark' = claim /\ digests' = digests \cup {claim} /\ claims' = Append(claims, claim)
      /\ clock > watermark.at /\ ~\E e \in digests : e.key = key
      /\ UNCHANGED <<clock, schedule, back>>
  BY DEF Digests!ProcessDueDigests, Digests!claimDigestSlot, Digests!Claimable, Digests!Recorded
<1>2. schedule \in {"hourly", "daily", "interval"} /\ clock \in Nat
  BY DEF Digests!ProcessDueDigests, Digests!getDueDigestSlot, DigestInv, Digests!Schedules
<1>3. key \in {"hourly", "daily", "interval"} \X Nat /\ key[1] = schedule
  BY <1>2, SlotBounds DEF Digests!getDigestSlotKey, EventsOutlive
<1>4. claim \in DueClaims
  <2>1. schedule = "hourly" => clock % Hour < 2
    BY DEF Digests!ProcessDueDigests, Digests!getDueDigestSlot
  <2>2. schedule = "daily" => clock % Day \in {2, 3}
    BY DEF Digests!ProcessDueDigests, Digests!getDueDigestSlot
  <2>3. key = Digests!getDigestSlotKey(schedule, clock)
    OBVIOUS
  <2> HIDE DEF key
  <2> QED
    BY <1>2, <1>3, <2>1, <2>2, <2>3 DEF DueClaims
<1>5. \A i \in DOMAIN claims : claims[i] \in DueClaims /\ claims[i].at < clock
  <2> SUFFICES ASSUME NEW i \in DOMAIN claims
               PROVE  claims[i] \in DueClaims /\ claims[i].at < clock
    OBVIOUS
  <2>1. claims \in Seq(DueClaims) /\ i \in 1 .. Len(claims) /\ Len(claims) \in Nat
    BY DEF DigestInv
  <2>2. claims[i] \in DueClaims /\ claims[Len(claims)] \in DueClaims
    BY <2>1
  <2>3. claims[i].at <= claims[Len(claims)].at
    <3>1. CASE i = Len(claims)
      BY <2>2, <3>1 DEF DueClaims
    <3>2. CASE i # Len(claims)
      <4>1. i < Len(claims) /\ Len(claims) \in DOMAIN claims
        BY <2>1, <3>2
      <4>2. claims[i].at < claims[Len(claims)].at
        BY <4>1 DEF DigestInv
      <4> QED
        BY <2>2, <4>2 DEF DueClaims
    <3> QED
      BY <3>1, <3>2
  <2>4. watermark = claims[Len(claims)]
    BY <2>1 DEF DigestInv
  <2> QED
    BY <1>1, <1>2, <2>2, <2>3, <2>4 DEF DueClaims
<1>6. \A i \in DOMAIN claims : claims[i].key # key
  <2> SUFFICES ASSUME NEW i \in DOMAIN claims, claims[i].key = key PROVE FALSE
    OBVIOUS
  <2>1. claims[i].at + Retention < clock + 2 * back
    BY <1>1 DEF DigestInv
  <2>2. clock - claims[i].at < Interval
    <3>1. claims[i] \in DueClaims /\ claims[i].key = claim.key /\ claim.at = clock
      BY <1>5
    <3> HIDE DEF claim
    <3> QED
      BY <1>4, <3>1, SlotsApart
  <2>3. claims[i].at \in Nat
    BY <1>5 DEF DueClaims
  <2> QED
    BY <1>2, <2>1, <2>2, <2>3 DEF EventsOutlive, DigestInv
<1>7. /\ claims' \in Seq(DueClaims) /\ Len(claims') = Len(claims) + 1
      /\ claims'[Len(claims) + 1] = claim
      /\ \A i \in DOMAIN claims : claims'[i] = claims[i]
      /\ DOMAIN claims = 1 .. Len(claims) /\ DOMAIN claims' = 1 .. Len(claims) + 1
      /\ Len(claims) \in Nat
  <2> HIDE DEF claim
  <2> QED
    BY <1>1, <1>4 DEF DigestInv
<1>8. claim.key = key /\ claim.at = clock
  OBVIOUS
<1> HIDE DEF claim, key
<1>9. claims' # <<>> /\ watermark' = claims'[Len(claims')]
  BY <1>1, <1>7
<1>10. \A i \in DOMAIN claims' : \/ claims'[i] \in digests'
                                 \/ claims'[i].at + Retention < clock' + 2 * back'
  BY <1>1, <1>7 DEF DigestInv
<1>11. \A i, j \in DOMAIN claims' : i < j =>
         claims'[i].key # claims'[j].key /\ claims'[i].at < claims'[j].at
  <2> SUFFICES ASSUME NEW i \in DOMAIN claims', NEW j \in DOMAIN claims', i < j
               PROVE  claims'[i].key # claims'[j].key /\ claims'[i].at < claims'[j].at
    OBVIOUS
  <2>1. i \in DOMAIN claims
    BY <1>7
  <2>2. CASE j \in DOMAIN claims
    BY <1>7, <2>1, <2>2 DEF DigestInv
  <2>3. CASE j = Len(claims) + 1
    BY <1>5, <1>6, <1>7, <1>8, <2>1, <2>3
  <2> QED
    BY <1>7, <2>2, <2>3
<1> QED
  BY <1>1, <1>7, <1>9, <1>10, <1>11 DEF DigestInv

\* Where the events outlive their slots, no slot of a schedule gets two digests,
\* whatever is edited, deleted, pruned or set back in between.
THEOREM DigestsOnceHolds ==
  ASSUME EventsOutlive
  PROVE  Spec => []DigestsOnce
<1>1. Init => DigestInv
  <2> SUFFICES ASSUME Init PROVE DigestInv
    OBVIOUS
  <2>1. 0 \in Nat /\ 0 \in 0 .. MaxBack /\ "none" \in Digests!Schedules
    BY DEF EventsOutlive, Digests!Schedules
  <2>2. clock = 0 /\ back = 0 /\ schedule = "none" /\ claims = <<>>
        /\ watermark = Digests!NoWatermark
    BY DEF Init, Digests!Init
  <2> QED
    BY <2>1, <2>2 DEF DigestInv
<1>2. DigestInv /\ [Next]_vars => DigestInv'
  <2> SUFFICES ASSUME DigestInv, [Digests!Next]_(Digests!vars) PROVE DigestInv'
    BY DEF Next, vars, Only, digestVars, Digests!vars
  <2>1. CASE UNCHANGED Digests!vars
    BY <2>1 DEF DigestInv, Digests!vars
  <2>2. ASSUME NEW s \in Digests!Schedules, Digests!Edit(s) PROVE DigestInv'
    BY <2>2 DEF DigestInv, Digests!Edit
  <2>3. \A i \in DOMAIN claims : claims[i] \in DueClaims
    BY DEF DigestInv
  <2>4. CASE Digests!Prune
    <3>1. UNCHANGED <<clock, schedule, watermark, claims, back>>
      BY <2>4 DEF Digests!Prune
    <3>2. ASSUME NEW i \in DOMAIN claims
          PROVE  claims[i] \in digests' \/ claims[i].at + Retention < clock + 2 * back
      <4>1. CASE claims[i] \in digests /\ claims[i].at >= clock - Retention
        BY <2>4, <4>1 DEF Digests!Prune
      <4>2. CASE claims[i].at < clock - Retention
        BY <2>3, <4>2 DEF DigestInv, EventsOutlive, DueClaims
      <4> QED
        BY <2>3, <4>1, <4>2 DEF DigestInv, EventsOutlive, DueClaims
    <3> QED
      BY <3>1, <3>2 DEF DigestInv
  <2>5. CASE Digests!Tick \/ Digests!SetBack
    <3>1. /\ UNCHANGED <<schedule, watermark, digests, claims>>
          /\ clock' \in Nat /\ back' \in 0 .. MaxBack
          /\ clock' + 2 * back' >= clock + 2 * back
      BY <2>5 DEF DigestInv, Digests!Tick, Digests!SetBack, EventsOutlive
    <3>2. ASSUME NEW i \in DOMAIN claims
          PROVE  claims[i] \in digests \/ claims[i].at + Retention < clock' + 2 * back'
      <4>1. claims[i] \in digests \/ claims[i].at + Retention < clock + 2 * back
        BY DEF DigestInv
      <4>2. claims[i].at \in Nat /\ Retention \in Nat /\ back \in Nat /\ clock \in Nat
        BY <2>3 DEF DigestInv, EventsOutlive, DueClaims
      <4>3. back' \in Nat
        BY <3>1 DEF EventsOutlive
      <4> DEFINE old == claims[i].at
      <4>4. old \in Nat /\ (claims[i] \in digests \/ old + Retention < clock + 2 * back)
        BY <4>1, <4>2
      <4>5. old + Retention < clock + 2 * back => old + Retention < clock' + 2 * back'
        <5> DEFINE reach == clock + 2 * back
                   later == clock' + 2 * back'
        <5>1. reach \in Nat /\ later \in Nat
          <6>1. clock' \in Nat
            BY <3>1
          <6>2. \A x, y \in Nat : x + 2 * y \in Nat
            OBVIOUS
          <6> QED
            BY <4>2, <4>3, <6>1, <6>2
        <5>n. later >= reach
          BY <3>1
        <5> HIDE DEF old, reach, later
        <5>2. old + Retention < reach => old + Retention < later
          BY <4>2, <4>4, <5>1, <5>n
        <5> QED
          BY <5>2 DEF reach, later
      <4> QED
        BY <4>4, <4>5
    <3> QED
      BY <3>1, <3>2 DEF DigestInv
  <2> QED
    BY <2>1, <2>2, <2>4, <2>5, ClaimKept DEF Digests!Next
<1>3. DigestInv => DigestsOnce
  BY DEF DigestInv, DigestsOnce, Digests!DigestsOnce
<1> QED
  BY <1>1, <1>2, <1>3, PTL DEF Spec

(***************************************************************************)
(* The grants of the chat                                                  *)
(***************************************************************************)

\* A bounded set of numbers has a greatest one.
LEMMA GreatestOf ==
  ASSUME NEW n \in Nat, NEW T \in SUBSET (0 .. n), T # {}
  PROVE  Grants!Max(T) \in T /\ \A y \in T : Grants!Max(T) >= y
<1> DEFINE D == {d \in Nat : n - d \in T}
<1>1. D # {}
  <2>1. PICK x \in T : TRUE
    OBVIOUS
  <2>2. n - x \in Nat /\ n - (n - x) = x
    OBVIOUS
  <2> QED
    BY <2>1, <2>2
<1>2. PICK d \in D : \A e \in D : d <= e
  BY <1>1, LeastOf
<1>3. \A y \in T : n - d >= y
  <2> SUFFICES ASSUME NEW y \in T PROVE n - d >= y
    OBVIOUS
  <2>1. n - y \in Nat /\ n - (n - y) = y
    OBVIOUS
  <2>2. n - y \in D
    BY <2>1
  <2>3. d <= n - y /\ d \in Nat /\ y \in Nat
    BY <1>2, <2>2
  <2> QED
    BY <2>3
<1>4. n - d \in T
  BY <1>2
<1>5. \E x \in T : \A y \in T : x >= y
  BY <1>3, <1>4
<1> QED
  BY <1>5 DEF Grants!Max

\* What the two handlers work on, and the states they are in.
ChatStates == [lastGrantId : Nat, low : BOOLEAN, failures : Nat, alerted : BOOLEAN, lastRun : Nat]
Stages == {"off", "failure", "alarm", "recovery", "financial", "mark", "finally", "send",
           "write", "rename"}
Handlers == [at : Stages, then : Stages, snap : ChatStates, seen : Grants!Balances]

\* Every grant up to a mark was told.
ToldUpTo(n) == n <= Len(grants) /\ \A g \in DOMAIN grants : g <= n => grantsTold[g] >= 1

\* A group was told, and is still to be marked.
Marking(r) == r.at = "mark" \/ (r.at \in {"write", "rename"} /\ r.then = "mark")

GrantTypes ==
    /\ runs \in Nat /\ grants \in Seq(Nat) /\ grantsTold \in Seq(Nat)
    /\ Len(grantsTold) = Len(grants)
    /\ mem \in ChatStates /\ disk \in ChatStates /\ run \in Handlers /\ poll \in Handlers
    /\ mishaps \in BOOLEAN

\* The grants of the table are in the order of their runs; every mark that may come
\* back, from the file or out of a write, is behind what was told; and without a
\* mishap what was told beyond the mark is the group that is being marked.
GrantFacts ==
    /\ \A g \in DOMAIN grants : grants[g] <= runs
    /\ \A g, h \in DOMAIN grants : g <= h => grants[g] <= grants[h]
    /\ ToldUpTo(mem.lastGrantId) /\ ToldUpTo(disk.lastGrantId)
    /\ ToldUpTo(run.snap.lastGrantId) /\ ToldUpTo(poll.snap.lastGrantId)
    /\ Marking(run) => \A g \in Grants!NextGroup : grantsTold[g] >= 1
    /\ ~mishaps => \A g \in DOMAIN grants :
         /\ grantsTold[g] <= 1
         /\ g > mem.lastGrantId /\ grantsTold[g] # 0 => Marking(run) /\ g \in Grants!NextGroup

GrantInv == GrantTypes /\ GrantFacts

\* The next group has every grant between the mark and its last one.
LEMMA GroupIsNext ==
  ASSUME GrantInv, Grants!NextGroup # {}
  PROVE  /\ Grants!NextGroup \subseteq Grants!Pending
         /\ Grants!Max(Grants!NextGroup) \in Grants!NextGroup
         /\ \A g \in DOMAIN grants : g > mem.lastGrantId =>
              (g \in Grants!NextGroup <=> g <= Grants!Max(Grants!NextGroup))
<1>1. /\ grants \in Seq(Nat) /\ runs \in Nat /\ mem.lastGrantId \in Nat
      /\ DOMAIN grants = 1 .. Len(grants) /\ Len(grants) \in Nat
      /\ \A g \in DOMAIN grants : grants[g] \in Nat
  BY DEF GrantInv, GrantTypes, ChatStates
<1>2. /\ Grants!Pending = {g \in DOMAIN grants : g > mem.lastGrantId}
      /\ Grants!Older = {g \in Grants!Pending : grants[g] # runs}
  BY DEF Grants!Pending, Grants!Older
<1>3. /\ \A g \in DOMAIN grants : grants[g] <= runs
      /\ \A g, h \in DOMAIN grants : g <= h => grants[g] <= grants[h]
  BY DEF GrantInv, GrantFacts
<1>4. Grants!NextGroup \subseteq Grants!Pending /\ Grants!Pending \subseteq DOMAIN grants
  BY <1>2 DEF Grants!NextGroup
<1>5. PICK m \in DOMAIN grants : /\ m = Grants!Max(Grants!NextGroup) /\ m \in Grants!NextGroup
                                 /\ \A g \in Grants!NextGroup : m >= g
  <2>1. Grants!NextGroup \subseteq 0 .. Len(grants)
    BY <1>1, <1>4
  <2> QED
    BY <1>1, <1>4, <2>1, GreatestOf
<1>6. ASSUME NEW g \in DOMAIN grants, g > mem.lastGrantId, g <= m
      PROVE  g \in Grants!NextGroup
  <2>1. g \in Grants!Pending
    BY <1>2, <1>6
  <2>2. CASE Grants!Older = {}
    BY <2>1, <2>2 DEF Grants!NextGroup
  <2>3. CASE Grants!Older # {}
    <3>1. PICK f \in Grants!Older : f = Grants!Min(Grants!Older) /\ \A h \in Grants!Older : f <= h
      <4>1. Grants!Older \subseteq Nat
        BY <1>1, <1>2
      <4>2. \E x \in Grants!Older : \A y \in Grants!Older : x <= y
        BY <2>3, <4>1, LeastOf
      <4> QED
        BY <4>2 DEF Grants!Min
    <3>2. Grants!NextGroup = {h \in Grants!Older : grants[h] = grants[f]}
      BY <2>3, <3>1 DEF Grants!NextGroup
    <3>3. grants[m] = grants[f] /\ f \in DOMAIN grants /\ grants[f] # runs
      BY <1>2, <1>5, <3>2
    <3>4. grants[g] <= grants[f] /\ grants[f] <= runs
      BY <1>3, <1>6, <3>3
    <3>5. grants[g] # runs
      BY <1>1, <3>3, <3>4
    <3>6. g \in Grants!Older
      BY <1>2, <2>1, <3>5
    <3>7. grants[f] <= grants[g]
      BY <1>3, <3>1, <3>3, <3>6
    <3>8. grants[g] = grants[f]
      BY <1>1, <3>3, <3>4, <3>7
    <3> QED
      BY <3>2, <3>6, <3>8
  <2> QED
    BY <2>2, <2>3
<1> QED
  BY <1>1, <1>4, <1>5, <1>6

\* What is pending depends on the table and on the mark alone.
LEMMA GroupStays ==
  ASSUME UNCHANGED <<runs, grants>>, mem'.lastGrantId = mem.lastGrantId
  PROVE  Grants!NextGroup' = Grants!NextGroup
BY DEF Grants!NextGroup, Grants!Older, Grants!Pending

\* A step that tells and marks nothing: marks move between the memory, the writes
\* and the file.
LEMMA MarksMove ==
  ASSUME GrantInv, UNCHANGED <<runs, grants, grantsTold>>,
         mem' \in ChatStates, mem'.lastGrantId = mem.lastGrantId,
         disk' \in ChatStates, run' \in Handlers, poll' \in Handlers,
         disk' \in {disk, run.snap, poll.snap},
         run'.snap \in {run.snap, mem, Grants!Fresh},
         poll'.snap \in {poll.snap, mem, Grants!Fresh},
         Marking(run') => Marking(run),
         mishaps' \in BOOLEAN, mishaps => mishaps',
         Marking(run) /\ ~Marking(run') => mishaps' \/ Grants!NextGroup = {}
  PROVE  GrantInv'
<1>1. GrantTypes'
  BY DEF GrantInv, GrantTypes
<1>2. Grants!NextGroup' = Grants!NextGroup
  BY GroupStays
<1>3. \A n : ToldUpTo(n)' <=> ToldUpTo(n)
  BY DEF ToldUpTo
<1>4. ToldUpTo(Grants!Fresh.lastGrantId)
  BY DEF GrantInv, GrantTypes, ToldUpTo, Grants!Fresh
<1>5. ToldUpTo(mem.lastGrantId)' /\ ToldUpTo(disk.lastGrantId)'
      /\ ToldUpTo(run.snap.lastGrantId)' /\ ToldUpTo(poll.snap.lastGrantId)'
  BY <1>4 DEF GrantInv, GrantFacts, ToldUpTo
<1>6. /\ Marking(run)' => Marking(run)
      /\ Marking(run) => Marking(run)' \/ mishaps' \/ Grants!NextGroup = {}
  BY DEF Marking
<1>7. GrantFacts'
  BY <1>2, <1>5, <1>6 DEF GrantInv, GrantFacts
<1> QED
  BY <1>1, <1>7 DEF GrantInv

\* A handler that goes on to a stage, one that saves, and one whose state was taken.
LEMMA MovedIs ==
  ASSUME NEW p \in Handlers, NEW x \in Stages
  PROVE  /\ [p EXCEPT !.at = x] \in Handlers /\ [p EXCEPT !.at = x].at = x
         /\ [p EXCEPT !.at = x].snap = p.snap /\ [p EXCEPT !.at = x].then = p.then
BY DEF Handlers

LEMMA SavedIs ==
  ASSUME NEW p \in Handlers, NEW x \in Stages
  PROVE  /\ Grants!Save(p, x) \in Handlers /\ Grants!Save(p, x).snap = p.snap
         /\ Grants!Save(p, x).at = "write" /\ Grants!Save(p, x).then = x
<1>1. "write" \in Stages
  BY DEF Stages
<1> QED
  BY <1>1 DEF Grants!Save, Handlers

LEMMA WrittenIs ==
  ASSUME NEW p \in Handlers, mem \in ChatStates
  PROVE  /\ Grants!Written(p) \in Handlers /\ Grants!Written(p).snap = mem
         /\ Grants!Written(p).at = "rename" /\ Grants!Written(p).then = p.then
<1>1. "rename" \in Stages
  BY DEF Stages
<1> QED
  BY <1>1 DEF Grants!Written, Handlers

\* A handler at rest, and one that begins or goes on from there.
LEMMA RestingIs ==
  /\ Grants!Fresh \in ChatStates
  /\ Grants!Off \in Handlers /\ Grants!Off.at = "off" /\ Grants!Off.then = "off"
  /\ Grants!Off.snap = Grants!Fresh
<1>1. Grants!Fresh \in ChatStates
  BY DEF Grants!Fresh, ChatStates
<1> QED
  BY <1>1 DEF Grants!Off, Handlers, Stages, Grants!Balances

LEMMA BegunIs ==
  ASSUME NEW x \in Stages, NEW b \in Grants!Balances
  PROVE  /\ [Grants!Off EXCEPT !.at = x, !.seen = b] \in Handlers
         /\ [Grants!Off EXCEPT !.at = x, !.seen = b].at = x
         /\ [Grants!Off EXCEPT !.at = x, !.seen = b].then = "off"
         /\ [Grants!Off EXCEPT !.at = x, !.seen = b].snap = Grants!Fresh
<1>1. \A r \in Handlers : /\ [r EXCEPT !.at = x, !.seen = b] \in Handlers
                          /\ [r EXCEPT !.at = x, !.seen = b].at = x
                          /\ [r EXCEPT !.at = x, !.seen = b].then = r.then
                          /\ [r EXCEPT !.at = x, !.seen = b].snap = r.snap
  BY DEF Handlers
<1> QED
  BY <1>1, RestingIs

\* A sequence of numbers that is continued with one of them.
LEMMA ContinuedIs ==
  ASSUME NEW s \in Seq(Nat), NEW n \in Nat, NEW v \in Nat
  PROVE  /\ (s \o [i \in 1 .. n |-> v]) \in Seq(Nat)
         /\ Len(s \o [i \in 1 .. n |-> v]) = Len(s) + n
         /\ \A g \in 1 .. Len(s) : (s \o [i \in 1 .. n |-> v])[g] = s[g]
         /\ \A g \in 1 .. Len(s) + n : g > Len(s) => (s \o [i \in 1 .. n |-> v])[g] = v
<1> DEFINE f == [i \in 1 .. n |-> v]
<1>1. f \in Seq(Nat) /\ Len(f) = n /\ \A i \in 1 .. n : f[i] = v
  OBVIOUS
<1> HIDE DEF f
<1>2. /\ (s \o f) \in Seq(Nat) /\ Len(s \o f) = Len(s) + n
      /\ \A i \in 1 .. Len(s) + n : (s \o f)[i] = IF i <= Len(s) THEN s[i] ELSE f[i - Len(s)]
  BY <1>1, ConcatProperties
<1>3. Len(s) \in Nat
  OBVIOUS
<1>4. \A g \in 1 .. Len(s) : (s \o f)[g] = s[g]
  BY <1>2, <1>3
<1>5. ASSUME NEW g \in 1 .. Len(s) + n, g > Len(s) PROVE (s \o f)[g] = v
  <2>1. g - Len(s) \in 1 .. n /\ ~(g <= Len(s))
    BY <1>3, <1>5
  <2> QED
    BY <1>1, <1>2, <2>1
<1> QED
  BY <1>2, <1>4, <1>5 DEF f

\* The two steps of a write, of the run and of the poller.
LEMMA SaveKept ==
  ASSUME GrantInv, Grants!save
  PROVE  GrantInv'
<1>0. /\ mem \in ChatStates /\ disk \in ChatStates /\ run \in Handlers /\ poll \in Handlers
      /\ mishaps \in BOOLEAN
      /\ run.snap \in ChatStates /\ poll.snap \in ChatStates
      /\ run.then \in Stages /\ poll.then \in Stages
      /\ run.seen \in Grants!Balances /\ poll.seen \in Grants!Balances
  BY DEF GrantInv, GrantTypes, Handlers
<1>1. CASE /\ run.at = "write" /\ run' = Grants!Written(run)
           /\ UNCHANGED <<runs, grants, mem, disk, poll, grantsTold, mishaps>>
  <2>1. run' \in Handlers /\ run'.snap = mem /\ run'.at = "rename" /\ run'.then = run.then
    BY <1>0, <1>1, WrittenIs
  <2>2. Marking(run') <=> Marking(run)
    BY <1>1, <2>1 DEF Marking
  <2> QED
    BY <1>0, <1>1, <2>1, <2>2, MarksMove
<1>2. CASE /\ poll.at = "write" /\ poll' = Grants!Written(poll)
           /\ UNCHANGED <<runs, grants, mem, disk, run, grantsTold, mishaps>>
  <2>1. poll' \in Handlers /\ poll'.snap = mem
    BY <1>0, <1>2, WrittenIs
  <2> QED
    BY <1>0, <1>2, <2>1, MarksMove
<1>3. CASE /\ run.at = "rename" /\ disk' = run.snap /\ run' = Grants!Renamed(run)
           /\ UNCHANGED <<runs, grants, mem, poll, grantsTold, mishaps>>
  <2>1. CASE run.then = "off"
    <3>1. run' = Grants!Off /\ ~Marking(run)
      BY <1>3, <2>1 DEF Grants!Renamed, Marking
    <3>2. run' \in Handlers /\ run'.snap = Grants!Fresh /\ run'.at = "off"
      BY <1>0, <3>1, RestingIs
    <3> QED
      BY <1>0, <1>3, <3>1, <3>2, MarksMove DEF Marking
  <2>2. CASE run.then # "off"
    <3>1. run' = [Grants!Off EXCEPT !.at = run.then, !.seen = run.seen]
      BY <1>3, <2>2 DEF Grants!Renamed
    <3>2. /\ run' \in Handlers /\ run'.snap = Grants!Fresh /\ run'.at = run.then
          /\ run'.then = "off"
      BY <1>0, <3>1, BegunIs
    <3>3. run.then # "write" /\ run.then # "rename" => (Marking(run') <=> Marking(run))
      BY <1>3, <3>2 DEF Marking
    <3>4. run.then = "write" \/ run.then = "rename" => ~Marking(run)
      BY <1>3 DEF Marking
    <3>5. run.then = "write" \/ run.then = "rename" => ~Marking(run')
      BY <3>2 DEF Marking
    <3> QED
      BY <1>0, <1>3, <3>2, <3>3, <3>4, <3>5, MarksMove
  <2> QED
    BY <2>1, <2>2
<1>4. CASE /\ run.at = "rename" /\ run' = Grants!Thrown(run, "finally") /\ mishaps' = TRUE
           /\ UNCHANGED <<runs, grants, mem, disk, poll, grantsTold>>
  <2>1. /\ run' \in Handlers
        /\ run'.snap \in {run.snap, Grants!Fresh}
        /\ run'.at \in {"off", "finally"}
    <3>1. "finally" \in Stages
      BY DEF Stages
    <3>2. run' = Grants!Off \/ run' = [run EXCEPT !.at = "finally"]
      BY <1>4 DEF Grants!Thrown
    <3>3. CASE run' = Grants!Off
      BY <3>3, RestingIs
    <3>4. CASE run' = [run EXCEPT !.at = "finally"]
      BY <1>0, <3>1, <3>4, MovedIs
    <3> QED
      BY <3>2, <3>3, <3>4
  <2> QED
    BY <1>0, <1>4, <2>1, MarksMove DEF Marking
<1>5. CASE /\ poll.at = "rename" /\ disk' = poll.snap /\ poll' = Grants!Renamed(poll)
           /\ UNCHANGED <<runs, grants, mem, run, grantsTold, mishaps>>
  <2>1. poll' \in Handlers /\ poll'.snap = Grants!Fresh
    <3>1. \/ poll' = Grants!Off
          \/ poll' = [Grants!Off EXCEPT !.at = poll.then, !.seen = poll.seen]
      BY <1>5 DEF Grants!Renamed
    <3>2. CASE poll' = Grants!Off
      BY <3>2, RestingIs
    <3>3. CASE poll' = [Grants!Off EXCEPT !.at = poll.then, !.seen = poll.seen]
      BY <1>0, <3>3, BegunIs
    <3> QED
      BY <3>1, <3>2, <3>3
  <2> QED
    BY <1>0, <1>5, <2>1, MarksMove
<1>6. CASE /\ poll.at = "rename" /\ poll' = Grants!Off /\ mishaps' = TRUE
           /\ UNCHANGED <<runs, grants, mem, disk, run, grantsTold>>
  <2>1. poll' \in Handlers /\ poll'.snap = Grants!Fresh
    BY <1>0, <1>6, RestingIs
  <2> QED
    BY <1>0, <1>6, <2>1, MarksMove
<1> QED
  BY <1>1, <1>2, <1>3, <1>4, <1>5, <1>6 DEF Grants!save

\* A run is stored, with grants that nobody was told of and that belong to it.
LEMMA RunStoredKept ==
  ASSUME GrantInv, NEW ok \in BOOLEAN, NEW n \in 0 .. MaxGrants, NEW b \in Grants!Balances,
         Grants!saveRun(ok, n, b)
  PROVE  GrantInv'
<1>0. /\ runs \in Nat /\ grants \in Seq(Nat) /\ grantsTold \in Seq(Nat)
      /\ Len(grantsTold) = Len(grants) /\ n \in Nat
  BY DEF GrantInv, GrantTypes
<1>1. /\ run.at = "off" /\ runs' = runs + 1
      /\ grants' = grants \o [i \in 1 .. n |-> runs + 1]
      /\ grantsTold' = grantsTold \o [i \in 1 .. n |-> 0]
      /\ run' = [Grants!Off EXCEPT !.at = IF ok THEN "recovery" ELSE "failure", !.seen = b]
      /\ UNCHANGED <<mem, disk, poll, mishaps>>
  BY DEF Grants!saveRun
<1>2. /\ run' \in Handlers /\ run'.at \in {"recovery", "failure"} /\ run'.snap = Grants!Fresh
  <2> DEFINE x == IF ok THEN "recovery" ELSE "failure"
  <2>1. x \in {"recovery", "failure"} /\ x \in Stages
    BY DEF Stages
  <2>2. run' = [Grants!Off EXCEPT !.at = x, !.seen = b]
    BY <1>1
  <2> HIDE DEF x
  <2> QED
    BY <2>1, <2>2, BegunIs
<1>3. /\ grants' \in Seq(Nat) /\ grantsTold' \in Seq(Nat)
      /\ Len(grants') = Len(grants) + n /\ Len(grantsTold') = Len(grants')
      /\ DOMAIN grants' = 1 .. Len(grants) + n /\ DOMAIN grants = 1 .. Len(grants)
      /\ \A g \in 1 .. Len(grants) : grants'[g] = grants[g] /\ grantsTold'[g] = grantsTold[g]
      /\ \A g \in 1 .. Len(grants) + n : g > Len(grants) =>
           grants'[g] = runs + 1 /\ grantsTold'[g] = 0
  <2> DEFINE more == grants \o [i \in 1 .. n |-> runs + 1]
             none == grantsTold \o [i \in 1 .. n |-> 0]
  <2>1. runs + 1 \in Nat /\ 0 \in Nat /\ Len(grants) \in Nat /\ n \in Nat
    BY <1>0
  <2>2. /\ more \in Seq(Nat) /\ Len(more) = Len(grants) + n
        /\ \A g \in 1 .. Len(grants) : more[g] = grants[g]
        /\ \A g \in 1 .. Len(grants) + n : g > Len(grants) => more[g] = runs + 1
    BY <1>0, <2>1, ContinuedIs
  <2>3. /\ none \in Seq(Nat) /\ Len(none) = Len(grantsTold) + n
        /\ \A g \in 1 .. Len(grantsTold) : none[g] = grantsTold[g]
        /\ \A g \in 1 .. Len(grantsTold) + n : g > Len(grantsTold) => none[g] = 0
    <3>1. \A v \in Nat : none = grantsTold \o [i \in 1 .. n |-> v] =>
            /\ none \in Seq(Nat) /\ Len(none) = Len(grantsTold) + n
            /\ \A g \in 1 .. Len(grantsTold) : none[g] = grantsTold[g]
            /\ \A g \in 1 .. Len(grantsTold) + n : g > Len(grantsTold) => none[g] = v
      <4> HIDE DEF none
      <4> QED
        BY <1>0, <2>1, ContinuedIs
    <3> QED
      BY <3>1
  <2>4. grants' = more /\ grantsTold' = none
    BY <1>1
  <2> HIDE DEF more, none
  <2>5. /\ grants' \in Seq(Nat) /\ Len(grants') = Len(grants) + n
        /\ \A g \in 1 .. Len(grants) : grants'[g] = grants[g]
        /\ \A g \in 1 .. Len(grants) + n : g > Len(grants) => grants'[g] = runs + 1
    BY <2>2, <2>4
  <2>6. /\ grantsTold' \in Seq(Nat) /\ Len(grantsTold') = Len(grants) + n
        /\ \A g \in 1 .. Len(grants) : grantsTold'[g] = grantsTold[g]
        /\ \A g \in 1 .. Len(grants) + n : g > Len(grants) => grantsTold'[g] = 0
    BY <1>0, <2>3, <2>4
  <2>7. DOMAIN grants' = 1 .. Len(grants) + n /\ DOMAIN grants = 1 .. Len(grants)
    BY <1>0, <2>5
  <2> QED
    BY <2>5, <2>6, <2>7
<1>4. GrantTypes'
  BY <1>0, <1>1, <1>2, <1>3 DEF GrantInv, GrantTypes
<1>5. \A k \in Nat : ToldUpTo(k) => ToldUpTo(k)'
  <2> SUFFICES ASSUME NEW k \in Nat, ToldUpTo(k) PROVE ToldUpTo(k)'
    OBVIOUS
  <2>1. k <= Len(grants')
    BY <1>0, <1>3 DEF ToldUpTo
  <2>2. ASSUME NEW g \in DOMAIN grants', g <= k PROVE grantsTold'[g] >= 1
    <3>1. g \in 1 .. Len(grants) /\ g \in DOMAIN grants
      BY <1>0, <1>3, <2>2 DEF ToldUpTo
    <3>2. grantsTold[g] >= 1
      BY <2>2, <3>1 DEF ToldUpTo
    <3> QED
      BY <1>3, <3>1, <3>2
  <2> QED
    BY <2>1, <2>2 DEF ToldUpTo
<1>6. ToldUpTo(0)
  BY <1>0 DEF ToldUpTo
<1>7. /\ ToldUpTo(mem.lastGrantId)' /\ ToldUpTo(disk.lastGrantId)'
      /\ ToldUpTo(run.snap.lastGrantId)' /\ ToldUpTo(poll.snap.lastGrantId)'
  <2>1. /\ mem.lastGrantId \in Nat /\ disk.lastGrantId \in Nat /\ poll.snap.lastGrantId \in Nat
        /\ run'.snap.lastGrantId = 0
    BY <1>2 DEF GrantInv, GrantTypes, ChatStates, Handlers, Grants!Fresh
  <2>2. /\ ToldUpTo(mem.lastGrantId) /\ ToldUpTo(disk.lastGrantId)
        /\ ToldUpTo(poll.snap.lastGrantId)
    BY DEF GrantInv, GrantFacts
  <2>3. \A k \in Nat : ToldUpTo(k) =>
          k <= Len(grants') /\ \A g \in DOMAIN grants' : g <= k => grantsTold'[g] >= 1
    BY <1>5 DEF ToldUpTo
  <2>4. ToldUpTo(0) => 0 <= Len(grants') /\ \A g \in DOMAIN grants' : g <= 0 => grantsTold'[g] >= 1
    BY <2>3
  <2>5. ToldUpTo(mem.lastGrantId)' /\ ToldUpTo(disk.lastGrantId)'
    BY <1>1, <2>1, <2>2, <2>3 DEF ToldUpTo
  <2>6. ToldUpTo(poll.snap.lastGrantId)'
    BY <1>1, <2>1, <2>2, <2>3 DEF ToldUpTo
  <2>7. ToldUpTo(run.snap.lastGrantId)'
    BY <1>6, <2>1, <2>4 DEF ToldUpTo
  <2> QED
    BY <2>5, <2>6, <2>7
<1>8. \A g \in DOMAIN grants' : grants'[g] <= runs'
  <2> SUFFICES ASSUME NEW g \in DOMAIN grants' PROVE grants'[g] <= runs + 1
    BY <1>1
  <2>1. CASE g \in 1 .. Len(grants)
    <3>1. grants[g] \in Nat
      BY <1>0, <2>1
    <3>2. grants[g] <= runs
      BY <1>3, <2>1 DEF GrantInv, GrantFacts
    <3>3. grants'[g] = grants[g]
      BY <1>3, <2>1
    <3> QED
      BY <1>0, <3>1, <3>2, <3>3
  <2>2. CASE g \notin 1 .. Len(grants)
    <3>1. g > Len(grants) /\ g \in 1 .. Len(grants) + n
      BY <1>0, <1>3, <2>2
    <3>2. grants'[g] = runs + 1 /\ runs + 1 \in Nat
      BY <1>0, <1>3, <3>1
    <3> QED
      BY <3>2
  <2> QED
    BY <2>1, <2>2
<1>9. \A g, h \in DOMAIN grants' : g <= h => grants'[g] <= grants'[h]
  <2> SUFFICES ASSUME NEW g \in DOMAIN grants', NEW h \in DOMAIN grants', g <= h
               PROVE  grants'[g] <= grants'[h]
    OBVIOUS
  <2>1. CASE h \in 1 .. Len(grants)
    <3>1. g \in 1 .. Len(grants)
      BY <1>0, <1>3, <2>1
    <3>2. grants[g] <= grants[h]
      BY <1>3, <2>1, <3>1 DEF GrantInv, GrantFacts
    <3> QED
      BY <1>3, <2>1, <3>1, <3>2
  <2>2. CASE h \notin 1 .. Len(grants)
    <3>1. grants'[h] = runs + 1
      BY <1>0, <1>3, <2>2
    <3> QED
      BY <1>1, <1>8, <3>1
  <2> QED
    BY <2>1, <2>2
<1>10. ~Marking(run) /\ ~Marking(run')
  BY <1>1, <1>2 DEF Marking
<1>11. ~mishaps => \A g \in DOMAIN grants' :
         grantsTold'[g] <= 1 /\ (g > mem.lastGrantId => grantsTold'[g] = 0)
  <2> SUFFICES ASSUME ~mishaps, NEW g \in DOMAIN grants'
               PROVE  grantsTold'[g] <= 1 /\ (g > mem.lastGrantId => grantsTold'[g] = 0)
    OBVIOUS
  <2>1. CASE g \in 1 .. Len(grants)
    <3>1. grantsTold[g] <= 1 /\ (g > mem.lastGrantId => grantsTold[g] = 0)
      BY <1>3, <1>10, <2>1 DEF GrantInv, GrantFacts
    <3> QED
      BY <1>3, <2>1, <3>1
  <2>2. CASE g \notin 1 .. Len(grants)
    BY <1>0, <1>3, <2>2
  <2> QED
    BY <2>1, <2>2
<1>12. GrantFacts'
  BY <1>1, <1>7, <1>8, <1>9, <1>10, <1>11 DEF GrantFacts, Marking
<1> QED
  BY <1>4, <1>12 DEF GrantInv

\* The parts of the state that a step of the chat is about, and their types.
LEMMA ChatTypes ==
  ASSUME GrantInv
  PROVE  /\ runs \in Nat /\ grants \in Seq(Nat) /\ grantsTold \in Seq(Nat)
         /\ Len(grantsTold) = Len(grants) /\ DOMAIN grantsTold = DOMAIN grants
         /\ mem \in ChatStates /\ mem.low \in BOOLEAN /\ mem.failures \in Nat
         /\ disk \in ChatStates /\ run \in Handlers /\ poll \in Handlers /\ mishaps \in BOOLEAN
BY DEF GrantInv, GrantTypes, ChatStates

\* The state in memory after a step that leaves the mark alone.
LEMMA MemMoves ==
  ASSUME NEW s \in ChatStates, NEW n \in Nat, NEW a \in BOOLEAN
  PROVE  /\ [s EXCEPT !.failures = n] \in ChatStates
         /\ [s EXCEPT !.failures = n].lastGrantId = s.lastGrantId
         /\ [s EXCEPT !.failures = n, !.alerted = a] \in ChatStates
         /\ [s EXCEPT !.failures = n, !.alerted = a].lastGrantId = s.lastGrantId
         /\ [s EXCEPT !.lastRun = n] \in ChatStates
         /\ [s EXCEPT !.lastRun = n].lastGrantId = s.lastGrantId
BY DEF ChatStates

LEMMA FlagsMove ==
  ASSUME NEW s \in ChatStates, NEW a \in BOOLEAN
  PROVE  /\ [s EXCEPT !.alerted = a] \in ChatStates
         /\ [s EXCEPT !.alerted = a].lastGrantId = s.lastGrantId
         /\ [s EXCEPT !.low = a] \in ChatStates
         /\ [s EXCEPT !.low = a].lastGrantId = s.lastGrantId
BY DEF ChatStates

\* The stages that the run goes on to.
LEMMA StagesAre ==
  {"off", "alarm", "finally", "financial", "mark", "send"} \subseteq Stages
BY DEF Stages

\* A step of the run outside the telling and the marking of grants.
LEMMA RunGoesOn ==
  ASSUME GrantInv, ~Marking(run), NEW x \in {"off", "alarm", "finally", "financial"},
         run' \in {[run EXCEPT !.at = x], Grants!Save(run, x)},
         mem' \in ChatStates, mem'.lastGrantId = mem.lastGrantId,
         mishaps' \in BOOLEAN, mishaps => mishaps',
         UNCHANGED <<runs, grants, disk, poll, grantsTold>>
  PROVE  GrantInv'
<1>1. x \in Stages
  BY StagesAre
<1>2. run \in Handlers /\ poll \in Handlers /\ disk \in ChatStates
  BY ChatTypes
<1>3. run' \in Handlers /\ run'.snap = run.snap /\ ~Marking(run')
  <2>1. CASE run' = [run EXCEPT !.at = x]
    BY <1>1, <1>2, <2>1, MovedIs DEF Marking
  <2>2. CASE run' = Grants!Save(run, x)
    BY <1>1, <1>2, <2>2, SavedIs DEF Marking
  <2> QED
    BY <2>1, <2>2
<1> QED
  BY <1>2, <1>3, MarksMove

\* What the chat was not answered for is a mishap.
LEMMA UnsentIs ==
  ASSUME GrantInv, NEW outcome \in Grants!Outcomes, Grants!Unsent(outcome)
  PROVE  mishaps' \in BOOLEAN /\ (mishaps => mishaps') /\ (outcome = "unanswered" => mishaps')
         /\ (outcome # "unanswered" => mishaps' = mishaps)
BY ChatTypes DEF Grants!Unsent

LEMMA FailureKept ==
  ASSUME GrantInv, Grants!processFailure
  PROVE  GrantInv'
<1>1. PICK n \in Nat : mem' = [mem EXCEPT !.failures = n]
  <2>1. mem.failures + 1 \in Nat
    BY ChatTypes
  <2>2. \/ mem' = [mem EXCEPT !.failures = mem.failures + 1]
        \/ mem' = [mem EXCEPT !.failures = mem.failures]
    BY DEF Grants!processFailure
  <2> QED
    BY <2>1, <2>2, ChatTypes
<1>2. mem' \in ChatStates /\ mem'.lastGrantId = mem.lastGrantId
  BY <1>1, ChatTypes, MemMoves
<1>3. /\ run.at = "failure" /\ run' = Grants!Save(run, "alarm")
      /\ UNCHANGED <<runs, grants, disk, poll, grantsTold, mishaps>>
  BY DEF Grants!processFailure
<1> QED
  BY <1>2, <1>3, ChatTypes, RunGoesOn DEF Marking

LEMMA AlarmKept ==
  ASSUME GrantInv, Grants!Alarm
  PROVE  GrantInv'
<1>0. run.at = "alarm" /\ UNCHANGED <<runs, grants, disk, poll, grantsTold>> /\ ~Marking(run)
  BY DEF Grants!Alarm, Marking
<1>1. CASE run' = [run EXCEPT !.at = "finally"] /\ UNCHANGED <<mem, mishaps>>
  BY <1>0, <1>1, ChatTypes, RunGoesOn
<1>2. ASSUME NEW outcome \in Grants!Outcomes, Grants!Unsent(outcome),
             \/ mem' = [mem EXCEPT !.alerted = TRUE] /\ run' = Grants!Save(run, "finally")
             \/ UNCHANGED mem /\ run' = [run EXCEPT !.at = "finally"]
      PROVE  GrantInv'
  <2>1. mem' \in ChatStates /\ mem'.lastGrantId = mem.lastGrantId
    BY <1>2, ChatTypes, FlagsMove
  <2>2. mishaps' \in BOOLEAN /\ (mishaps => mishaps')
    BY <1>2, UnsentIs
  <2>3. run' \in {[run EXCEPT !.at = "finally"], Grants!Save(run, "finally")}
    BY <1>2
  <2> QED
    BY <1>0, <2>1, <2>2, <2>3, RunGoesOn
<1> QED
  BY <1>1, <1>2 DEF Grants!Alarm

LEMMA RecoveryKept ==
  ASSUME GrantInv, Grants!processRecovery
  PROVE  GrantInv'
<1>0. /\ run.at = "recovery" /\ UNCHANGED <<runs, grants, disk, poll, grantsTold>>
      /\ ~Marking(run)
  BY DEF Grants!processRecovery, Marking
<1>1. CASE /\ mem' = [mem EXCEPT !.failures = 0] /\ run' = Grants!Save(run, "financial")
           /\ UNCHANGED mishaps
  <2>1. mem' \in ChatStates /\ mem'.lastGrantId = mem.lastGrantId
    BY <1>1, ChatTypes DEF ChatStates
  <2> QED
    BY <1>0, <1>1, <2>1, ChatTypes, RunGoesOn
<1>2. ASSUME NEW outcome \in Grants!Outcomes, Grants!Unsent(outcome),
             mem' = [mem EXCEPT !.failures = 0, !.alerted = outcome # "sent"],
             run' \in {Grants!Save(run, "financial"), [run EXCEPT !.at = "finally"]}
      PROVE  GrantInv'
  <2>1. mem' \in ChatStates /\ mem'.lastGrantId = mem.lastGrantId
    BY <1>2, ChatTypes DEF ChatStates
  <2>2. mishaps' \in BOOLEAN /\ (mishaps => mishaps')
    BY <1>2, UnsentIs
  <2>3. CASE run' = Grants!Save(run, "financial")
    BY <1>0, <2>1, <2>2, <2>3, RunGoesOn
  <2>4. CASE run' = [run EXCEPT !.at = "finally"]
    BY <1>0, <2>1, <2>2, <2>4, RunGoesOn
  <2> QED
    BY <1>2, <2>3, <2>4
<1> QED
  BY <1>1, <1>2 DEF Grants!processRecovery

LEMMA FinallyKept ==
  ASSUME GrantInv, Grants!Finally
  PROVE  GrantInv'
<1>1. mem' \in ChatStates /\ mem'.lastGrantId = mem.lastGrantId
  BY ChatTypes, MemMoves DEF Grants!Finally
<1>2. /\ run.at = "finally" /\ run' = Grants!Save(run, "off")
      /\ UNCHANGED <<runs, grants, disk, poll, grantsTold, mishaps>>
  BY DEF Grants!Finally
<1> QED
  BY <1>1, <1>2, ChatTypes, RunGoesOn DEF Marking

\* The balance flag after a message or without one.
LEMMA LowIs ==
  ASSUME GrantInv, NEW p, NEW s \in BOOLEAN
  PROVE  Grants!LowAfter(p, s) \in BOOLEAN
BY ChatTypes DEF Grants!LowAfter

LEMMA PollKept ==
  ASSUME GrantInv, NEW b \in Grants!Balances, Grants!Poll(b)
  PROVE  GrantInv'
<1> DEFINE p == [Grants!Off EXCEPT !.seen = b]
<1>1. UNCHANGED <<runs, grants, disk, run, grantsTold, mishaps>>
  BY DEF Grants!Poll
<1>2. /\ p \in Handlers /\ p.snap = Grants!Fresh
      /\ [p EXCEPT !.at = "send"] \in Handlers /\ [p EXCEPT !.at = "send"].snap = Grants!Fresh
      /\ Grants!Save(p, "off") \in Handlers /\ Grants!Save(p, "off").snap = Grants!Fresh
  <2>1. p \in Handlers /\ p.snap = Grants!Fresh
    BY RestingIs DEF Handlers
  <2> HIDE DEF p
  <2>2. "send" \in Stages /\ "off" \in Stages
    BY StagesAre
  <2> QED
    BY <2>1, <2>2, MovedIs, SavedIs
<1>3. \/ poll' = [p EXCEPT !.at = "send"] /\ UNCHANGED mem
      \/ mem' = [mem EXCEPT !.low = Grants!LowAfter(p, FALSE)] /\ poll' = Grants!Save(p, "off")
  BY DEF Grants!Poll
<1> HIDE DEF p
<1>4. poll' \in Handlers /\ poll'.snap = Grants!Fresh
  BY <1>2, <1>3
<1>5. mem' \in ChatStates /\ mem'.lastGrantId = mem.lastGrantId
  <2>1. Grants!LowAfter(p, FALSE) \in BOOLEAN
    BY LowIs
  <2> QED
    BY <1>3, <2>1, ChatTypes, FlagsMove
<1> QED
  BY <1>1, <1>4, <1>5, ChatTypes, MarksMove

LEMMA PollSentKept ==
  ASSUME GrantInv, Grants!PollSent
  PROVE  GrantInv'
<1>1. UNCHANGED <<runs, grants, disk, run, grantsTold, mishaps>>
  BY DEF Grants!PollSent
<1>2. \/ /\ mem' = [mem EXCEPT !.low = Grants!LowAfter(poll, TRUE)]
         /\ poll' = Grants!Save(poll, "off")
      \/ UNCHANGED mem /\ poll' = Grants!Off
  BY DEF Grants!PollSent
<1>3. poll' \in Handlers /\ poll'.snap \in {poll.snap, Grants!Fresh}
  <2>1. "off" \in Stages
    BY StagesAre
  <2>2. CASE poll' = Grants!Save(poll, "off")
    BY <2>1, <2>2, ChatTypes, SavedIs
  <2>3. CASE poll' = Grants!Off
    BY <2>3, RestingIs
  <2> QED
    BY <1>2, <2>2, <2>3
<1>4. mem' \in ChatStates /\ mem'.lastGrantId = mem.lastGrantId
  <2>1. Grants!LowAfter(poll, TRUE) \in BOOLEAN
    BY LowIs
  <2> QED
    BY <1>2, <2>1, ChatTypes, FlagsMove
<1> QED
  BY <1>1, <1>3, <1>4, ChatTypes, MarksMove

\* The state that is read again is behind what was told.
LEMMA CrashKept ==
  ASSUME GrantInv, Grants!Crash
  PROVE  GrantInv'
<1>1. /\ mem' = disk /\ run' = Grants!Off /\ poll' = Grants!Off /\ mishaps'
      /\ mishaps' = TRUE /\ UNCHANGED <<runs, grants, disk, grantsTold>>
  BY DEF Grants!Crash
<1>2. GrantTypes'
  BY <1>1, RestingIs DEF GrantInv, GrantTypes
<1>3. ToldUpTo(Grants!Fresh.lastGrantId)
  BY DEF GrantInv, GrantTypes, ToldUpTo, Grants!Fresh
<1>4. ToldUpTo(mem.lastGrantId)' /\ ToldUpTo(disk.lastGrantId)'
      /\ ToldUpTo(run.snap.lastGrantId)' /\ ToldUpTo(poll.snap.lastGrantId)'
  BY <1>1, <1>3, RestingIs DEF GrantInv, GrantFacts, ToldUpTo
<1>5. ~Marking(run)'
  BY <1>1, RestingIs DEF Marking
<1>6. GrantFacts'
  BY <1>1, <1>4, <1>5 DEF GrantInv, GrantFacts
<1> QED
  BY <1>2, <1>6 DEF GrantInv

\* A message tells the next group, and the mark stays; or it tells nothing.
LEMMA TellKept ==
  ASSUME GrantInv, Grants!processFinancialNotifications
  PROVE  GrantInv'
<1> DEFINE group == Grants!NextGroup
<1>1. PICK b \in (IF Grants!Older = {} THEN {run.seen} ELSE Grants!Balances) :
        LET own == [run EXCEPT !.seen = b]
        IN  IF ~Grants!Tells(own, group)
            THEN /\ mem' = [mem EXCEPT !.low = Grants!LowAfter(own, FALSE)]
                 /\ run' = Grants!Save(run, "finally") /\ UNCHANGED <<grantsTold, mishaps>>
            ELSE \E outcome \in Grants!Outcomes :
                   /\ Grants!Unsent(outcome)
                   /\ grantsTold' = [g \in DOMAIN grantsTold |->
                        IF g \in group /\ outcome # "refused" THEN grantsTold[g] + 1
                        ELSE grantsTold[g]]
                   /\ IF outcome = "sent"
                      THEN /\ mem' = [Grants!Mark(group) EXCEPT !.low = Grants!LowAfter(own, TRUE)]
                           /\ run' = Grants!Save(run, "mark")
                      ELSE mem' = Grants!Mark(group) /\ run' = [run EXCEPT !.at = "finally"]
  BY DEF Grants!processFinancialNotifications
<1>2. /\ run.at = "financial" /\ UNCHANGED <<runs, grants, disk, poll>> /\ ~Marking(run)
  BY DEF Grants!processFinancialNotifications, Marking
<1> DEFINE own == [run EXCEPT !.seen = b]
<1> HIDE DEF group, own
<1>3. CASE /\ mem' = [mem EXCEPT !.low = Grants!LowAfter(own, FALSE)]
           /\ run' = Grants!Save(run, "finally") /\ UNCHANGED <<grantsTold, mishaps>>
  <2>1. Grants!LowAfter(own, FALSE) \in BOOLEAN
    BY LowIs
  <2>2. mem' \in ChatStates /\ mem'.lastGrantId = mem.lastGrantId
    BY <1>3, <2>1, ChatTypes, FlagsMove
  <2> QED
    BY <1>2, <1>3, <2>2, ChatTypes, RunGoesOn
<1>4. ASSUME NEW outcome \in Grants!Outcomes, Grants!Unsent(outcome),
             grantsTold' = [g \in DOMAIN grantsTold |->
               IF g \in group /\ outcome # "refused" THEN grantsTold[g] + 1 ELSE grantsTold[g]],
             IF outcome = "sent"
             THEN /\ mem' = [mem EXCEPT !.low = Grants!LowAfter(own, TRUE)]
                  /\ run' = Grants!Save(run, "mark")
             ELSE mem' = mem /\ run' = [run EXCEPT !.at = "finally"]
      PROVE  GrantInv'
  <2>1. mishaps' \in BOOLEAN /\ (mishaps => mishaps') /\ (outcome = "unanswered" => mishaps')
    BY <1>4, UnsentIs
  <2>2. mem' \in ChatStates /\ mem'.lastGrantId = mem.lastGrantId
    <3>1. Grants!LowAfter(own, TRUE) \in BOOLEAN
      BY LowIs
    <3> QED
      BY <1>4, <3>1, ChatTypes, FlagsMove
  <2>3. /\ grantsTold' \in Seq(Nat) /\ Len(grantsTold') = Len(grants)
        /\ DOMAIN grantsTold' = DOMAIN grants
    <3>1. grantsTold' \in [1 .. Len(grants) -> Nat]
      <4>1. /\ DOMAIN grantsTold = 1 .. Len(grants)
            /\ \A g \in DOMAIN grantsTold : grantsTold[g] \in Nat /\ grantsTold[g] + 1 \in Nat
        BY ChatTypes
      <4> QED
        BY <1>4, <4>1
    <3>2. Len(grants) \in Nat /\ DOMAIN grants = 1 .. Len(grants)
      BY ChatTypes
    <3> QED
      BY <3>1, <3>2
  <2>4. \A g \in DOMAIN grants : /\ grantsTold[g] \in Nat
                                 /\ grantsTold'[g] = IF g \in group /\ outcome # "refused"
                                                     THEN grantsTold[g] + 1 ELSE grantsTold[g]
    <3>1. DOMAIN grantsTold = DOMAIN grants /\ grantsTold \in Seq(Nat)
      BY ChatTypes
    <3>2. \A g \in DOMAIN grantsTold : grantsTold[g] \in Nat
      BY <3>1
    <3> QED
      BY <1>4, <3>1, <3>2
  <2>5. \A n \in Nat : ToldUpTo(n) =>
          n <= Len(grants) /\ \A g \in DOMAIN grants : g <= n => grantsTold'[g] >= 1
    <3> SUFFICES ASSUME NEW n \in Nat, ToldUpTo(n), NEW g \in DOMAIN grants, g <= n
                 PROVE  n <= Len(grants) /\ grantsTold'[g] >= 1
      BY DEF ToldUpTo
    <3>1. n <= Len(grants) /\ grantsTold[g] >= 1 /\ grantsTold[g] \in Nat
      BY <2>4 DEF ToldUpTo
    <3> QED
      BY <2>4, <3>1
  <2>6. run' \in Handlers /\ run'.snap = run.snap /\ (Marking(run') <=> outcome = "sent")
    <3>1. run \in Handlers /\ "mark" \in Stages /\ "finally" \in Stages
      BY ChatTypes, StagesAre
    <3>2. CASE outcome = "sent"
      BY <1>4, <3>1, <3>2, SavedIs DEF Marking
    <3>3. CASE outcome # "sent"
      <4>1. run' = [run EXCEPT !.at = "finally"]
        BY <1>4, <3>3
      <4>2. run' \in Handlers /\ run'.snap = run.snap /\ run'.at = "finally"
        BY <3>1, <4>1, MovedIs
      <4> QED
        BY <3>3, <4>2 DEF Marking
    <3> QED
      BY <3>2, <3>3
  <2>7. group' = group /\ group \subseteq DOMAIN grants
        /\ \A g \in group : g > mem.lastGrantId
    BY <1>2, <2>2, GroupStays
    DEF group, Grants!NextGroup, Grants!Older, Grants!Pending
  <2>8. GrantTypes'
    BY <1>2, <2>1, <2>2, <2>3, <2>6, ChatTypes DEF GrantTypes
  <2>9. ToldUpTo(mem.lastGrantId)' /\ ToldUpTo(disk.lastGrantId)'
        /\ ToldUpTo(run.snap.lastGrantId)' /\ ToldUpTo(poll.snap.lastGrantId)'
    <3>1. /\ mem.lastGrantId \in Nat /\ disk.lastGrantId \in Nat
          /\ run.snap.lastGrantId \in Nat /\ poll.snap.lastGrantId \in Nat
      BY ChatTypes DEF ChatStates, Handlers
    <3>2. /\ ToldUpTo(mem.lastGrantId) /\ ToldUpTo(disk.lastGrantId)
          /\ ToldUpTo(run.snap.lastGrantId) /\ ToldUpTo(poll.snap.lastGrantId)
      BY DEF GrantInv, GrantFacts
    <3> QED
      BY <1>2, <2>2, <2>5, <2>6, <3>1, <3>2 DEF ToldUpTo
  <2>10. outcome = "sent" => \A g \in group : grantsTold'[g] >= 1
    BY <2>4, <2>7
  <2>11. ~mishaps' => \A g \in DOMAIN grants :
           /\ grantsTold'[g] <= 1
           /\ g > mem.lastGrantId /\ grantsTold'[g] # 0 => outcome = "sent" /\ g \in group
    <3> SUFFICES ASSUME ~mishaps', NEW g \in DOMAIN grants
                 PROVE  /\ grantsTold'[g] <= 1
                        /\ g > mem.lastGrantId /\ grantsTold'[g] # 0 =>
                             outcome = "sent" /\ g \in group
      OBVIOUS
    <3>1. ~mishaps /\ outcome \in {"sent", "refused"}
      BY <2>1 DEF Grants!Outcomes
    <3>2. grantsTold[g] <= 1 /\ (g > mem.lastGrantId => grantsTold[g] = 0)
      BY <1>2, <3>1 DEF GrantInv, GrantFacts
    <3> QED
      BY <2>4, <2>7, <3>1, <3>2
  <2>12. GrantFacts'
    <3>1. \A g \in DOMAIN grants' : grants'[g] <= runs'
      BY <1>2 DEF GrantInv, GrantFacts
    <3>2. \A g, h \in DOMAIN grants' : g <= h => grants'[g] <= grants'[h]
      BY <1>2 DEF GrantInv, GrantFacts
    <3>3. Grants!NextGroup' = group
      BY <2>7 DEF group
    <3>4. (Marking(run) => \A g \in Grants!NextGroup : grantsTold[g] >= 1)'
      BY <2>6, <2>10, <3>3 DEF Marking
    <3>5. (~mishaps => \A g \in DOMAIN grants :
             /\ grantsTold[g] <= 1
             /\ g > mem.lastGrantId /\ grantsTold[g] # 0 =>
                  Marking(run) /\ g \in Grants!NextGroup)'
      BY <1>2, <2>2, <2>6, <2>11, <3>3 DEF Marking
    <3> QED
      BY <2>9, <3>1, <3>2, <3>4, <3>5 DEF GrantFacts
  <2> QED
    BY <2>8, <2>12 DEF GrantInv
<1> QED
  BY <1>1, <1>3, <1>4 DEF own, Grants!Mark

\* The group that was told is marked.
LEMMA MarkKept ==
  ASSUME GrantInv, Grants!MarkGrants
  PROVE  GrantInv'
<1> DEFINE last == Grants!Max(Grants!NextGroup)
<1>1. run.at = "mark" /\ UNCHANGED <<runs, grants, disk, poll, grantsTold, mishaps>>
  BY DEF Grants!MarkGrants
<1>2. Marking(run)
  BY <1>1 DEF Marking
<1>3. CASE Grants!NextGroup = {}
  <2>1. UNCHANGED mem /\ run' = [run EXCEPT !.at = "finally"]
    BY <1>3 DEF Grants!MarkGrants
  <2>2. run' \in Handlers /\ run'.snap = run.snap
    BY <2>1, ChatTypes, StagesAre, MovedIs
  <2> QED
    BY <1>1, <1>2, <1>3, <2>1, <2>2, ChatTypes, MarksMove
<1>4. CASE Grants!NextGroup # {}
  <2>1. /\ mem' = [mem EXCEPT !.lastGrantId = last]
        /\ \/ run' = Grants!Save(run, "finally")
           \/ run' = Grants!Save(run, "financial")
    BY <1>4 DEF Grants!MarkGrants
  <2>2. /\ last \in Grants!NextGroup /\ last \in DOMAIN grants /\ last > mem.lastGrantId
        /\ \A g \in DOMAIN grants : g > mem.lastGrantId => (g \in Grants!NextGroup <=> g <= last)
    BY <1>4, GroupIsNext DEF Grants!Pending
  <2>3. Len(grants) \in Nat /\ DOMAIN grants = 1 .. Len(grants) /\ mem.lastGrantId \in Nat
    BY ChatTypes DEF ChatStates
  <2> HIDE DEF last
  <2>4. last \in Nat /\ last <= Len(grants)
    BY <2>2, <2>3
  <2>5. mem' \in ChatStates /\ mem'.lastGrantId = last
    BY <2>1, <2>4, ChatTypes DEF ChatStates
  <2>6. run' \in Handlers /\ run'.snap = run.snap /\ ~Marking(run')
    <3>1. CASE run' = Grants!Save(run, "finally")
      BY <3>1, ChatTypes, StagesAre, SavedIs DEF Marking
    <3>2. CASE run' = Grants!Save(run, "financial")
      BY <3>2, ChatTypes, StagesAre, SavedIs DEF Marking
    <3> QED
      BY <2>1, <3>1, <3>2
  <2>7. GrantTypes'
    BY <1>1, <2>5, <2>6, ChatTypes DEF GrantTypes
  <2>8. ToldUpTo(mem.lastGrantId) /\ \A g \in Grants!NextGroup : grantsTold[g] >= 1
    BY <1>2 DEF GrantInv, GrantFacts
  <2>9. ToldUpTo(last)
    <3> SUFFICES ASSUME NEW g \in DOMAIN grants, g <= last PROVE grantsTold[g] >= 1
      BY <2>4 DEF ToldUpTo
    <3>1. CASE g <= mem.lastGrantId
      BY <2>8, <3>1 DEF ToldUpTo
    <3>2. CASE g > mem.lastGrantId
      BY <2>2, <2>8, <3>2
    <3> QED
      BY <2>3, <3>1, <3>2
  <2>10. ToldUpTo(mem.lastGrantId)' /\ ToldUpTo(disk.lastGrantId)'
         /\ ToldUpTo(run.snap.lastGrantId)' /\ ToldUpTo(poll.snap.lastGrantId)'
    BY <1>1, <2>5, <2>6, <2>9 DEF GrantInv, GrantFacts, ToldUpTo
  <2>11. ~mishaps => \A g \in DOMAIN grants :
           grantsTold[g] <= 1 /\ (g > last => grantsTold[g] = 0)
    <3> SUFFICES ASSUME ~mishaps, NEW g \in DOMAIN grants
                 PROVE  grantsTold[g] <= 1 /\ (g > last => grantsTold[g] = 0)
      OBVIOUS
    <3>1. /\ grantsTold[g] <= 1
          /\ g > mem.lastGrantId /\ grantsTold[g] # 0 => g \in Grants!NextGroup
      BY DEF GrantInv, GrantFacts
    <3>2. g > last => g > mem.lastGrantId /\ ~(g <= last)
      BY <2>2, <2>3, <2>4
    <3> QED
      BY <2>2, <3>1, <3>2
  <2>12. \A g, h \in DOMAIN grants' : g <= h => grants'[g] <= grants'[h]
    BY <1>1 DEF GrantInv, GrantFacts
  <2>13. GrantFacts'
    BY <1>1, <2>5, <2>6, <2>10, <2>11, <2>12 DEF GrantInv, GrantFacts, Marking
  <2> QED
    BY <2>7, <2>13 DEF GrantInv
<1> QED
  BY <1>3, <1>4

\* No grant is passed over, whatever fails, ends or is overwritten; and without a
\* mishap none reaches the chat twice.
THEOREM GrantsToldHolds == Spec => []GrantsTold
<1>1. Init => GrantInv
  <2> SUFFICES ASSUME Init PROVE GrantInv
    OBVIOUS
  <2>1. /\ runs = 0 /\ grants = <<>> /\ grantsTold = <<>> /\ mem = Grants!Fresh
        /\ disk = Grants!Fresh /\ run = Grants!Off /\ poll = Grants!Off /\ mishaps = FALSE
    BY DEF Init, Grants!Init
  <2>2. GrantTypes
    <3>1. <<>> \in Seq(Nat)
      OBVIOUS
    <3>2. grants \in Seq(Nat) /\ grantsTold \in Seq(Nat) /\ Len(grantsTold) = Len(grants)
      BY <2>1, <3>1
    <3> QED
      BY <2>1, <3>2, RestingIs DEF GrantTypes
  <2>3. ToldUpTo(Grants!Fresh.lastGrantId)
    BY <2>1 DEF ToldUpTo, Grants!Fresh
  <2>4. ~Marking(run) /\ DOMAIN grants = {}
    BY <2>1, RestingIs DEF Marking
  <2> QED
    BY <2>1, <2>2, <2>3, <2>4, RestingIs DEF GrantInv, GrantFacts
<1>2. GrantInv /\ [Next]_vars => GrantInv'
  <2> SUFFICES ASSUME GrantInv, [Grants!Next]_(Grants!vars) PROVE GrantInv'
    BY DEF Next, vars, Only, grantVars, Grants!vars
  <2>1. CASE UNCHANGED Grants!vars
    <3>1. UNCHANGED <<runs, grants, mem, disk, run, poll, grantsTold, mishaps>>
      BY <2>1 DEF Grants!vars
    <3> QED
      BY <3>1, ChatTypes, MarksMove
  <2>2. CASE \E ok \in BOOLEAN, n \in 0 .. MaxGrants, b \in Grants!Balances :
               Grants!saveRun(ok, n, b)
    BY <2>2, RunStoredKept
  <2>3. CASE \E b \in Grants!Balances : Grants!Poll(b)
    BY <2>3, PollKept
  <2>4. CASE Grants!save \/ Grants!PollSent \/ Grants!Crash
    BY <2>4, SaveKept, PollSentKept, CrashKept
  <2>5. CASE Grants!processRun
    BY <2>5, FailureKept, AlarmKept, RecoveryKept, TellKept, MarkKept, FinallyKept
    DEF Grants!processRun
  <2> QED
    BY <2>1, <2>2, <2>3, <2>4, <2>5 DEF Grants!Next
<1>3. GrantInv => GrantsTold
  <2> SUFFICES ASSUME GrantInv PROVE Grants!GrantsTold
    BY DEF GrantsTold
  <2> QED
    BY DEF GrantInv, GrantFacts, ToldUpTo, Grants!GrantsTold
<1> QED
  BY <1>1, <1>2, <1>3, PTL DEF Spec

(***************************************************************************)
(* The alerts: of a quota window, of a provider, of the weekly quota       *)
(***************************************************************************)

Alarms == Quota!Alarms
Floor == Quota!Threshold
QuotaTrackers ==
    [at : Int, left : Int, credits : Nat, generation : Nat, changes : Nat,
     epoch : [Alarms -> Nat], fired : SUBSET Alarms]

\* An alarm that was told is marked until the quota is above it again; and a
\* fingerprint that was used is behind the epoch, or the alarm is marked under it.
QuotaInv ==
    /\ tracker \in QuotaTrackers
    /\ \A a \in tracker.fired : tracker.left <= Floor[a] + 2
    /\ \A e \in quotaEvents : e[1] \in Alarms =>
         /\ e[3] \in Nat /\ e[3] <= tracker.epoch[e[1]]
         /\ e[3] = tracker.epoch[e[1]] => e[1] \in tracker.fired

\* The levels of the alarms, and the worst that an observation reaches.
LEMMA FloorIs ==
  /\ Alarms = {"warning", "critical", "exhausted"}
  /\ \A a \in Alarms : Floor[a] \in Int
  /\ "reset" \notin Alarms /\ "credit" \notin Alarms
BY DEF Alarms, Floor, Quota!Alarms, Quota!Threshold

LEMMA WorstIs ==
  ASSUME NEW o, o.left \in Int, Quota!Reached(o) # {}
  PROVE  /\ Quota!Worst(o) \in Alarms /\ o.left <= Floor[Quota!Worst(o)]
         /\ \A a \in Alarms : o.left <= Floor[a] => Floor[Quota!Worst(o)] <= Floor[a]
<1>1. \E w \in Quota!Reached(o) : \A a \in Quota!Reached(o) : Floor[w] <= Floor[a]
  BY DEF Quota!Reached, Quota!Alarms, Quota!Threshold, Floor
<1>2. /\ Quota!Worst(o) \in Quota!Reached(o)
      /\ \A a \in Quota!Reached(o) : Floor[Quota!Worst(o)] <= Floor[a]
  BY <1>1 DEF Quota!Worst, Floor
<1> QED
  BY <1>2 DEF Quota!Reached, Alarms, Floor

\* A confirmed reset arms every alarm, under epochs that were not used.
LEMMA ResetIs ==
  ASSUME NEW t \in QuotaTrackers, NEW o
  PROVE  LET r == Quota!AfterReset(t, o)
         IN  /\ r \in QuotaTrackers /\ r.fired \subseteq t.fired
             /\ \A a \in Alarms : /\ r.epoch[a] >= t.epoch[a]
                                  /\ r.epoch[a] = t.epoch[a] /\ a \in t.fired => a \in r.fired
<1>1. CASE ~Quota!ConfirmedReset(t, o)
  <2>1. Quota!AfterReset(t, o) = t
    BY <1>1 DEF Quota!AfterReset
  <2> QED
    BY <2>1 DEF QuotaTrackers
<1>2. CASE Quota!ConfirmedReset(t, o)
  <2> DEFINE next == [a \in Quota!Alarms |-> t.epoch[a] + 1]
             r == [t EXCEPT !.generation = t.generation + 1, !.fired = {}, !.epoch = next]
  <2>1. Quota!AfterReset(t, o) = r
    BY <1>2 DEF Quota!AfterReset
  <2>2. /\ next \in [Alarms -> Nat] /\ t.generation + 1 \in Nat
        /\ \A a \in Alarms : next[a] = t.epoch[a] + 1
    BY DEF QuotaTrackers, Alarms
  <2> HIDE DEF next
  <2>3. r \in QuotaTrackers /\ r.fired = {} /\ r.epoch = next
    BY <2>2 DEF QuotaTrackers
  <2>4. \A a \in Alarms : t.epoch[a] \in Nat
    BY DEF QuotaTrackers
  <2> HIDE DEF r
  <2> QED
    BY <2>1, <2>2, <2>3, <2>4
<1> QED
  BY <1>1, <1>2

\* What stays marked when alarms are armed again, and under which epochs.
LEMMA RearmedIs ==
  ASSUME NEW t \in QuotaTrackers, NEW o, o.left \in Int
  PROVE  LET n == Quota!Rearmed(t, o)
         IN  /\ n \in QuotaTrackers /\ n.fired \subseteq t.fired
             /\ \A a \in n.fired : o.left <= Floor[a] + 2
             /\ \A a \in Alarms : /\ n.epoch[a] >= t.epoch[a]
                                  /\ n.epoch[a] = t.epoch[a] /\ a \in t.fired => a \in n.fired
<1> DEFINE above == {a \in t.fired : o.left > Quota!Threshold[a] + Quota!Hysteresis}
           n == [t EXCEPT !.fired = t.fired \ above,
                          !.epoch = [a \in Quota!Alarms |-> IF a \in above THEN t.epoch[a] + 1
                                                            ELSE t.epoch[a]]]
<1>1. Quota!Rearmed(t, o) = n
  BY DEF Quota!Rearmed
<1>2. \A a \in t.fired \ above : o.left <= Floor[a] + 2
  BY FloorIs DEF QuotaTrackers, Floor, Quota!Hysteresis
<1> HIDE DEF above
<1>3. \A a \in Alarms : t.epoch[a] \in Nat /\ t.epoch[a] + 1 \in Nat
  BY DEF QuotaTrackers
<1>4. [a \in Quota!Alarms |-> IF a \in above THEN t.epoch[a] + 1 ELSE t.epoch[a]]
        \in [Alarms -> Nat]
  BY <1>3 DEF Alarms
<1>5. /\ n \in QuotaTrackers /\ n.fired = t.fired \ above
      /\ \A a \in Alarms : n.epoch[a] = IF a \in above THEN t.epoch[a] + 1 ELSE t.epoch[a]
  BY <1>4 DEF QuotaTrackers, Alarms
<1> HIDE DEF n
<1>6. \A a \in Alarms : /\ n.epoch[a] >= t.epoch[a]
                        /\ n.epoch[a] = t.epoch[a] /\ a \in t.fired => a \in n.fired
  BY <1>3, <1>5
<1> QED
  BY <1>1, <1>2, <1>5, <1>6

\* One observation: the tracker that is kept, and what is told.
LEMMA AlertKept ==
  ASSUME QuotaInv, NEW o \in Quota!Observations, Quota!Ingest(o)
  PROVE  /\ QuotaInv'
         /\ \A a \in Alarms :
              /\ tracker'.at # tracker.at
              /\ tracker.left > Floor[a] + 2 /\ tracker'.left <= Floor[a]
              => \E b \in Alarms, e \in quotaEvents' \ quotaEvents :
                   Floor[b] <= Floor[a] /\ e[1] = b
<1>0. tracker \in QuotaTrackers /\ o.left \in Int /\ o.at \in Int /\ o.credits \in Nat
  <2>1. o.left \in Levels /\ o.at \in 1 .. MaxObserved /\ o.credits \in 0 .. 2
    BY DEF Quota!Observations
  <2>2. o.left \in 0 .. 100
    BY <2>1, ObservatoryAssumption
  <2> QED
    BY <2>1, <2>2 DEF QuotaInv
<1>1. CASE UNCHANGED <<tracker, quotaEvents>>
  BY <1>1 DEF QuotaInv
<1>2. CASE tracker' = Quota!Tracked(tracker, o)
                /\ quotaEvents' = quotaEvents \cup Quota!Told(tracker, o)
  <2> DEFINE r == Quota!AfterReset(tracker, o)
             n == Quota!Rearmed(r, o)
  <2>1. /\ r \in QuotaTrackers /\ r.fired \subseteq tracker.fired
        /\ \A a \in Alarms : /\ r.epoch[a] >= tracker.epoch[a]
                             /\ r.epoch[a] = tracker.epoch[a] /\ a \in tracker.fired
                                 => a \in r.fired
    BY <1>0, ResetIs
  <2> HIDE DEF r
  <2>2. /\ n \in QuotaTrackers /\ n.fired \subseteq r.fired
        /\ \A a \in n.fired : o.left <= Floor[a] + 2
        /\ \A a \in Alarms : /\ n.epoch[a] >= r.epoch[a]
                             /\ n.epoch[a] = r.epoch[a] /\ a \in r.fired => a \in n.fired
    BY <1>0, <2>1, RearmedIs
  <2> HIDE DEF n
  <2>3. \A a \in Alarms : tracker.epoch[a] \in Nat /\ r.epoch[a] \in Nat /\ n.epoch[a] \in Nat
    BY <1>0, <2>1, <2>2 DEF QuotaTrackers
  <2>4. \A a \in Alarms : /\ n.epoch[a] >= tracker.epoch[a]
                          /\ n.epoch[a] = tracker.epoch[a] /\ a \in tracker.fired => a \in n.fired
    BY <2>1, <2>2, <2>3
  <2>5. \A e \in quotaEvents : e[1] \in Alarms =>
          /\ e[3] \in Nat /\ e[3] <= n.epoch[e[1]]
          /\ e[3] = n.epoch[e[1]] => e[1] \in n.fired
    <3> SUFFICES ASSUME NEW e \in quotaEvents, e[1] \in Alarms
                 PROVE  /\ e[3] \in Nat /\ e[3] <= n.epoch[e[1]]
                        /\ e[3] = n.epoch[e[1]] => e[1] \in n.fired
      OBVIOUS
    <3>1. /\ e[3] \in Nat /\ e[3] <= tracker.epoch[e[1]]
          /\ e[3] = tracker.epoch[e[1]] => e[1] \in tracker.fired
      BY DEF QuotaInv
    <3> QED
      BY <2>3, <2>4, <3>1
  <2> DEFINE w == Quota!Worst(o)
             raises == Quota!Reached(o) # {} /\ w \notin n.fired
             raised == <<w, n.generation, n.epoch[w]>>
             marked == IF raises THEN n.fired \cup Quota!Milder(w) ELSE n.fired
  <2>6. quotaEvents' = quotaEvents \cup
          (IF Quota!ConfirmedReset(tracker, o) THEN {<<"reset", r.generation>>} ELSE {}) \cup
          (IF Quota!CreditChange(tracker, o)
           THEN {<<"credit", r.generation, tracker.changes + 1, o.credits>>} ELSE {}) \cup
          (IF raises THEN {raised} ELSE {})
    BY <1>2 DEF Quota!Told, Quota!Raises, n, r
  <2>7. /\ tracker' \in QuotaTrackers /\ tracker'.left = o.left
        /\ tracker'.epoch = n.epoch /\ tracker'.fired = marked
    <3> DEFINE credit == IF o.credits = 0 THEN n.credits ELSE o.credits
               change == IF Quota!CreditChange(tracker, o) THEN n.changes + 1 ELSE n.changes
    <3>1. tracker' = [n EXCEPT !.at = o.at, !.left = o.left, !.credits = credit,
                               !.changes = change, !.fired = marked]
      BY <1>2 DEF Quota!Tracked, Quota!Raises, n, r
    <3>2. credit \in Nat /\ change \in Nat /\ marked \subseteq Alarms
      <4>1. n.credits \in Nat /\ n.changes \in Nat /\ n.changes + 1 \in Nat
                 /\ n.fired \subseteq Alarms
        BY <2>2 DEF QuotaTrackers
      <4> QED
        BY <1>0, <4>1 DEF Quota!Milder, Alarms
    <3> HIDE DEF credit, change, marked
    <3> QED
      BY <1>0, <2>2, <3>1, <3>2 DEF QuotaTrackers
  <2>8. raises => /\ w \in Alarms /\ o.left <= Floor[w] /\ w \in Quota!Milder(w)
                  /\ \A a \in Alarms : o.left <= Floor[a] => Floor[w] <= Floor[a]
                  /\ \A a \in Quota!Milder(w) : a \in Alarms /\ o.left <= Floor[a] + 2
    <3> SUFFICES ASSUME raises PROVE
             /\ w \in Alarms /\ o.left <= Floor[w] /\ w \in Quota!Milder(w)
             /\ \A a \in Alarms : o.left <= Floor[a] => Floor[w] <= Floor[a]
             /\ \A a \in Quota!Milder(w) : a \in Alarms /\ o.left <= Floor[a] + 2
      OBVIOUS
    <3>1. /\ w \in Alarms /\ o.left <= Floor[w]
          /\ \A a \in Alarms : o.left <= Floor[a] => Floor[w] <= Floor[a]
      BY <1>0, WorstIs
    <3> HIDE DEF w
    <3>2. \A a \in Quota!Milder(w) : a \in Alarms /\ Floor[w] <= Floor[a]
      BY DEF Quota!Milder, Alarms, Floor
    <3>3. w \in Quota!Milder(w)
      BY <3>1, FloorIs DEF Quota!Milder, Alarms, Floor
    <3> QED
      BY <1>0, <3>1, <3>2, <3>3, FloorIs
  <2> HIDE DEF w
  <2>9. \A a \in tracker'.fired : tracker'.left <= Floor[a] + 2
    BY <2>2, <2>7, <2>8
  <2>10. \A e \in quotaEvents' : e[1] \in Alarms =>
           /\ e[3] \in Nat /\ e[3] <= tracker'.epoch[e[1]]
           /\ e[3] = tracker'.epoch[e[1]] => e[1] \in tracker'.fired
    <3> SUFFICES ASSUME NEW e \in quotaEvents', e[1] \in Alarms
                 PROVE  /\ e[3] \in Nat /\ e[3] <= n.epoch[e[1]]
                        /\ e[3] = n.epoch[e[1]] => e[1] \in marked
      BY <2>7
    <3>1. CASE e \in quotaEvents
      BY <2>5, <3>1
    <3>2. CASE raises /\ e = raised
      <4>1. e[1] = w /\ e[3] = n.epoch[w]
        BY <3>2
      <4> QED
        BY <2>3, <2>8, <3>2, <4>1
    <3>3. e # <<"reset", r.generation>>
      BY FloorIs
    <3>4. e # <<"credit", r.generation, tracker.changes + 1, o.credits>>
      BY FloorIs
    <3> QED
      BY <2>6, <3>1, <3>2, <3>3, <3>4
  <2>11. ASSUME NEW a \in Alarms, tracker.left > Floor[a] + 2, tracker'.left <= Floor[a]
         PROVE  \E b \in Alarms, e \in quotaEvents' \ quotaEvents :
                  Floor[b] <= Floor[a] /\ e[1] = b
    <3>1. Quota!Reached(o) # {} /\ w \in Alarms /\ Floor[w] <= Floor[a]
      <4>1. a \in Quota!Reached(o)
        BY <2>7, <2>11 DEF Quota!Reached, Alarms, Floor
      <4> QED
        BY <1>0, <2>7, <2>11, <4>1, WorstIs DEF w
    <3>2. w \notin tracker.fired
      <4>1. w \in tracker.fired => tracker.left <= Floor[w] + 2
        BY DEF QuotaInv
      <4>2. tracker.left \in Int /\ Floor[w] \in Int /\ Floor[a] \in Int
        BY <1>0, <3>1, FloorIs DEF QuotaTrackers
      <4> QED
        BY <2>11, <3>1, <4>1, <4>2
    <3>3. raises
      BY <2>1, <2>2, <3>1, <3>2
    <3>4. raised \in quotaEvents' /\ raised[1] = w /\ raised[3] = n.epoch[w]
      BY <2>6, <3>3
    <3>5. raised \notin quotaEvents
      BY <2>5, <3>1, <3>3, <3>4
    <3> QED
      BY <3>1, <3>4, <3>5
  <2> QED
    BY <2>7, <2>9, <2>10, <2>11 DEF QuotaInv
<1> QED
  BY <1>1, <1>2 DEF Quota!Ingest, Quota!upsertQuotaTracker, Quota!recordEvent

\* A fall of the quota is told, whatever was told before.
LEMMA DropsAreTold == Spec => Quota!DropsTold
<1>1. Init => QuotaInv
  BY FloorIs DEF Init, Quota!Init, Quota!Untracked, QuotaInv, QuotaTrackers, Alarms
<1>2. QuotaInv /\ [Next]_vars => QuotaInv'
  <2> SUFFICES ASSUME QuotaInv, [Quota!Next]_(Quota!vars) PROVE QuotaInv'
    BY DEF Next, vars, Only, quotaVars, Quota!vars
  <2>1. CASE UNCHANGED Quota!vars
    BY <2>1 DEF QuotaInv, Quota!vars
  <2> QED
    BY <2>1, AlertKept DEF Quota!Next
<1>3. QuotaInv /\ [Next]_vars =>
        [\A a \in Quota!Alarms :
           /\ tracker'.at # tracker.at
           /\ tracker.left > Quota!Threshold[a] + Quota!Hysteresis
                /\ tracker'.left <= Quota!Threshold[a]
           => \E b \in Quota!Alarms, e \in quotaEvents' \ quotaEvents :
                Quota!Threshold[b] <= Quota!Threshold[a] /\ e[1] = b]_(Quota!vars)
  <2> SUFFICES ASSUME QuotaInv, Quota!Next
               PROVE  \A a \in Quota!Alarms :
                        /\ tracker'.at # tracker.at
                        /\ tracker.left > Quota!Threshold[a] + Quota!Hysteresis
                             /\ tracker'.left <= Quota!Threshold[a]
                        => \E b \in Quota!Alarms, e \in quotaEvents' \ quotaEvents :
                             Quota!Threshold[b] <= Quota!Threshold[a] /\ e[1] = b
    BY DEF Next, vars, Only, quotaVars, Quota!vars
  <2> QED
    BY AlertKept DEF Quota!Next, Alarms, Floor, Quota!Hysteresis
<1> QED
  BY <1>1, <1>2, <1>3, PTL DEF Spec, Quota!DropsTold

\* The levels of an incident, and how they rank.
Levelled == {"degraded", "down", "cooldown", "blocked", "disabled"}
LEMMA RanksAre ==
  /\ Provider!Flagged \subseteq Levelled /\ "none" \notin Levelled /\ "recovered" \notin Levelled
  /\ "none" \notin Provider!Flagged /\ "degraded" \notin Provider!Flagged
  /\ Provider!Rank("none") = 0
  /\ \A l \in Levelled : Provider!Rank(l) \in 1 .. 5
  /\ \A l \in Levelled : Provider!Rank(l) > 1 <=> l \in Provider!Flagged
<1> DEFINE ranked == <<"degraded", "down", "cooldown", "blocked", "disabled">>
<1>1. \A l \in Levelled : \E i \in 1 .. 5 : ranked[i] = l /\ \A j \in 1 .. 5 : ranked[j] = l => j = i
  <2>1. /\ ranked[1] = "degraded" /\ ranked[2] = "down" /\ ranked[3] = "cooldown"
        /\ ranked[4] = "blocked" /\ ranked[5] = "disabled"
    OBVIOUS
  <2> QED
    BY <2>1 DEF Levelled
<1>2. DOMAIN ranked = 1 .. 5 /\ ranked[1] = "degraded"
  OBVIOUS
<1>3. \A l \in Levelled : Provider!Rank(l) \in 1 .. 5 /\ ranked[Provider!Rank(l)] = l
  <2> SUFFICES ASSUME NEW l \in Levelled
               PROVE  Provider!Rank(l) \in 1 .. 5 /\ ranked[Provider!Rank(l)] = l
    OBVIOUS
  <2>1. Provider!Rank(l) = CHOOSE i \in DOMAIN ranked : ranked[i] = l
    BY DEF Provider!Rank, Provider!Ranked, Levelled
  <2>2. \E i \in DOMAIN ranked : ranked[i] = l
    BY <1>1, <1>2
  <2> HIDE DEF ranked
  <2> QED
    BY <1>2, <2>1, <2>2
<1>4. \A l \in Levelled : Provider!Rank(l) = 1 <=> l = "degraded"
  BY <1>1, <1>2, <1>3 DEF Levelled
<1>5. Provider!Rank("none") = 0
  BY DEF Provider!Rank
<1>6. \A l \in Levelled : Provider!Rank(l) > 1 <=> l # "degraded"
  BY <1>3, <1>4
<1>7. \A l \in Levelled : l # "degraded" <=> l \in Provider!Flagged
  BY DEF Provider!Flagged, Levelled
<1>8. /\ Provider!Flagged \subseteq Levelled /\ "none" \notin Levelled /\ "recovered" \notin Levelled
      /\ "none" \notin Provider!Flagged /\ "degraded" \notin Provider!Flagged
  BY DEF Provider!Flagged, Levelled
<1> QED
  BY <1>3, <1>5, <1>6, <1>7, <1>8

\* The flag of the row is the outage that was told; a degraded row has an incident; no
\* fingerprint is ahead of the epoch, and the recovery of a standing outage is not used up.
IncidentInv ==
    /\ row.blocked \in Nat /\ row.disabled \in Nat /\ row.epoch \in Nat
    /\ row.flag \in Provider!Flagged \cup {"none"}
    /\ open \in Levelled \cup {"none"}
    /\ row.flag = IF open \in Provider!Flagged THEN open ELSE "none"
    /\ row.health = "degraded" => open # "none"
    /\ \A e \in incidents :
         \/ e[1] \in Levelled /\ e[2] \in Nat /\ e[2] <= row.epoch
         \/ e[1] = "recovered" /\ e[3] \in Nat /\ e[3] <= row.epoch
    /\ open \in Provider!Flagged => <<"recovered", open, row.epoch>> \notin incidents

\* The levels that a row stands for, and that an observation asks for.
LEMMA LevelsAre ==
  ASSUME IncidentInv, NEW o
  PROVE  /\ Provider!StoredLevel(row) \in Levelled \cup {"none"}
         /\ Provider!TargetLevel(row, o) \in Levelled \cup {"none"}
         /\ open \in Provider!Flagged => Provider!StoredLevel(row) = open
         /\ Provider!StoredLevel(row) \in Provider!Flagged => open = Provider!StoredLevel(row)
         /\ Provider!StoredLevel(row) # "none" => open # "none"
         /\ o.health = "degraded" => Provider!TargetLevel(row, o) # "none"
<1>1. /\ Provider!TargetLevel(row, o) \in Levelled \cup {"none"}
      /\ o.health = "degraded" => Provider!TargetLevel(row, o) # "none"
  BY DEF Provider!TargetLevel, Levelled
<1>2. Provider!StoredLevel(row) \in Levelled \cup {"none"}
  BY RanksAre DEF IncidentInv, Provider!StoredLevel, Levelled
<1> QED
  BY <1>1, <1>2, RanksAre DEF IncidentInv, Provider!StoredLevel

\* One observation: what the row keeps, and what is told.
LEMMA IncidentKept ==
  ASSUME IncidentInv, NEW o \in Provider!Observations, Provider!Ingest(o)
  PROVE  /\ IncidentInv'
         /\ LET new == incidents' \ incidents
                raised == {e \in new : e[1] # "recovered"}
                ends == new \ raised
            IN  /\ open \in Provider!Flagged =>
                     \A e \in raised : Provider!Rank(e[1]) > Provider!Rank(open)
                /\ open \in Provider!Flagged /\ row'.health = "healthy"
                     /\ row'.blocked = 0 /\ row'.disabled = 0 => ends # {}
                /\ ends # {} => open # "none" \/ raised # {}
<1> DEFINE stored == Provider!StoredLevel(row)
           target == Provider!TargetLevel(row, o)
           escalates == Provider!Rank(target) > Provider!Rank(stored)
           level == IF escalates THEN target ELSE stored
           epoch == IF escalates THEN row.epoch + 1 ELSE row.epoch
           recovers == Provider!Healthy(o) /\ level # "none"
           kept == IF recovers THEN "none" ELSE level
<1>1. /\ stored \in Levelled \cup {"none"} /\ target \in Levelled \cup {"none"}
      /\ open \in Provider!Flagged => stored = open
      /\ stored \in Provider!Flagged => open = stored
      /\ stored # "none" => open # "none"
      /\ o.health = "degraded" => target # "none"
  BY LevelsAre
<1>2. /\ incidents' = incidents \cup
           ((IF escalates THEN {<<target, epoch>>} ELSE {}) \cup
            (IF recovers THEN {<<"recovered", level, epoch>>} ELSE {}))
      /\ open' = IF recovers THEN "none" ELSE IF escalates THEN target ELSE open
  BY DEF Provider!Ingest, Provider!recordEvent, Provider!Alerts, Provider!Recovers,
         Provider!LevelNow, Provider!EpochNow, Provider!Escalates
<1>3. /\ row'.health = o.health /\ row'.epoch = epoch
      /\ row'.flag = IF kept \in Provider!Flagged THEN kept ELSE "none"
      /\ row'.blocked = IF Provider!Healthy(o) THEN 0 ELSE Provider!Count(row.blocked, o.blocked)
      /\ row'.disabled = IF Provider!Healthy(o) THEN 0 ELSE Provider!Count(row.disabled, o.disabled)
  BY DEF Provider!Ingest, Provider!upsertProviderTracker, Provider!Stored, Provider!Recovers,
         Provider!LevelNow, Provider!EpochNow, Provider!Escalates
<1>4. /\ Provider!Rank("none") = 0 /\ \A l \in Levelled : Provider!Rank(l) \in 1 .. 5
      /\ "none" \notin Levelled /\ "recovered" \notin Levelled
      /\ Provider!Flagged \subseteq Levelled
      /\ \A l \in Levelled : Provider!Rank(l) > 1 <=> l \in Provider!Flagged
  BY RanksAre
<1>5. /\ row.epoch \in Nat /\ epoch \in Nat /\ row.epoch <= epoch
      /\ escalates => epoch = row.epoch + 1
  BY DEF IncidentInv
<1>6. \A n \in Nat : /\ Provider!Count(n, o.blocked) \in Nat
                     /\ Provider!Count(n, o.disabled) \in Nat
                     /\ Provider!Count(n, o.blocked) = 0 => ~o.blocked
                     /\ Provider!Count(n, o.disabled) = 0 => ~o.disabled
  BY DEF Provider!Count, Provider!Capped
<1>7. escalates => target \in Levelled
  BY <1>1, <1>4
<1> HIDE DEF stored, target, epoch
<1>8. ~escalates /\ target # "none" => stored # "none"
  BY <1>1, <1>4
<1> HIDE DEF escalates
<1>9. level \in Levelled \cup {"none"}
  BY <1>1
<1>10. /\ open' \in Levelled \cup {"none"}
       /\ row'.flag = IF open' \in Provider!Flagged THEN open' ELSE "none"
       /\ row'.health = "degraded" => open' # "none"
  <2>1. CASE recovers
    BY <1>2, <1>3, <1>4, <2>1 DEF Provider!Healthy
  <2>2. CASE ~recovers /\ escalates
    BY <1>2, <1>3, <1>4, <1>7, <2>2
  <2>3. CASE ~recovers /\ ~escalates
    BY <1>1, <1>2, <1>3, <1>4, <1>8, <2>3 DEF IncidentInv
  <2> QED
    BY <2>1, <2>2, <2>3
<1>11. \A e \in incidents' :
         \/ e[1] \in Levelled /\ e[2] \in Nat /\ e[2] <= row'.epoch
         \/ e[1] = "recovered" /\ e[3] \in Nat /\ e[3] <= row'.epoch
  <2> SUFFICES ASSUME NEW e \in incidents'
               PROVE  \/ e[1] \in Levelled /\ e[2] \in Nat /\ e[2] <= epoch
                      \/ e[1] = "recovered" /\ e[3] \in Nat /\ e[3] <= epoch
    BY <1>3
  <2>1. CASE e \in incidents
    BY <1>5, <2>1 DEF IncidentInv
  <2>2. CASE escalates /\ e = <<target, epoch>>
    BY <1>5, <1>7, <2>2
  <2>3. CASE e = <<"recovered", level, epoch>>
    BY <1>5, <2>3
  <2> QED
    BY <1>2, <2>1, <2>2, <2>3
<1>12. escalates => /\ <<target, epoch>> \notin incidents
                    /\ \A l : <<"recovered", l, epoch>> \notin incidents
  <2> SUFFICES ASSUME escalates, NEW e \in incidents
               PROVE  e # <<target, epoch>> /\ \A l : e # <<"recovered", l, epoch>>
    OBVIOUS
  <2>1. \/ e[1] \in Levelled /\ e[2] \in Nat /\ e[2] <= row.epoch
        \/ e[1] = "recovered" /\ e[3] \in Nat /\ e[3] <= row.epoch
    BY DEF IncidentInv
  <2> QED
    BY <1>4, <1>5, <1>7, <2>1
<1>13. open' \in Provider!Flagged => <<"recovered", open', row'.epoch>> \notin incidents'
  <2> SUFFICES ASSUME open' \in Provider!Flagged
               PROVE  <<"recovered", open', row'.epoch>> \notin incidents'
    OBVIOUS
  <2>1. ~recovers /\ open' # "none"
    BY <1>2, <1>4
  <2>2. <<"recovered", open', row'.epoch>> \notin incidents
    <3>1. CASE escalates
      BY <1>3, <1>12, <3>1
    <3>2. CASE ~escalates
      <4>1. open' = open /\ row'.epoch = row.epoch
        BY <1>2, <1>3, <2>1, <3>2 DEF epoch
      <4> QED
        BY <4>1 DEF IncidentInv
    <3> QED
      BY <3>1, <3>2
  <2>3. escalates => <<"recovered", open', row'.epoch>> # <<target, epoch>>
    BY <1>4, <1>7
  <2> QED
    BY <1>2, <2>1, <2>2, <2>3
<1>14. IncidentInv'
  <2>1. row'.blocked \in Nat /\ row'.disabled \in Nat
    BY <1>3, <1>6 DEF IncidentInv
  <2>2. row'.flag \in Provider!Flagged \cup {"none"}
    BY <1>3
  <2> QED
    BY <1>3, <1>5, <1>10, <1>11, <1>13, <2>1, <2>2 DEF IncidentInv
<1> DEFINE new == incidents' \ incidents
           raised == {e \in new : e[1] # "recovered"}
           ends == new \ raised
<1>15. open \in Provider!Flagged => \A e \in raised : Provider!Rank(e[1]) > Provider!Rank(open)
  <2> SUFFICES ASSUME open \in Provider!Flagged, NEW e \in raised
               PROVE  Provider!Rank(e[1]) > Provider!Rank(open)
    OBVIOUS
  <2>1. escalates /\ e = <<target, epoch>>
    BY <1>2
  <2> QED
    BY <1>1, <2>1 DEF escalates
<1>16. open \in Provider!Flagged /\ row'.health = "healthy"
         /\ row'.blocked = 0 /\ row'.disabled = 0 => ends # {}
  <2> SUFFICES ASSUME open \in Provider!Flagged, row'.health = "healthy",
                      row'.blocked = 0, row'.disabled = 0
               PROVE  ends # {}
    OBVIOUS
  <2>1. Provider!Healthy(o)
    BY <1>3, <1>6 DEF IncidentInv, Provider!Healthy
  <2>2. level # "none"
    BY <1>1, <1>4, <1>7
  <2>3. <<"recovered", level, epoch>> \in incidents'
    BY <1>2, <2>1, <2>2
  <2>4. <<"recovered", level, epoch>> \notin incidents
    <3>1. CASE escalates
      BY <1>12, <3>1
    <3>2. CASE ~escalates
      <4>1. level = open /\ epoch = row.epoch
        BY <1>1, <3>2 DEF epoch
      <4> QED
        BY <4>1 DEF IncidentInv
    <3> QED
      BY <3>1, <3>2
  <2> QED
    BY <2>3, <2>4
<1>17. ends # {} => open # "none" \/ raised # {}
  <2> SUFFICES ASSUME NEW e \in ends, open = "none" PROVE raised # {}
    OBVIOUS
  <2>1. recovers
    <3>1. e[1] = "recovered" /\ e \in incidents' /\ e \notin incidents
      OBVIOUS
    <3> QED
      BY <1>2, <1>4, <1>7, <3>1
  <2>2. escalates
    BY <1>1, <2>1
  <2>3. <<target, epoch>> \in raised
    BY <1>2, <1>4, <1>7, <1>12, <2>2
  <2> QED
    BY <2>3
<1> QED
  BY <1>14, <1>15, <1>16, <1>17

\* An outage is announced once and ended once.
LEMMA OutagesAreClosed == Spec => Provider!OutagesClosed
<1>1. Init => IncidentInv
  <2> SUFFICES ASSUME Init PROVE IncidentInv
    OBVIOUS
  <2>1. /\ row.health = "healthy" /\ row.blocked = 0 /\ row.disabled = 0 /\ row.epoch = 1
        /\ row.flag = "none" /\ open = "none" /\ incidents = {}
    BY DEF Init, Provider!Init, Provider!NoRow
  <2> QED
    BY <2>1, RanksAre DEF IncidentInv
<1>2. IncidentInv /\ [Next]_vars => IncidentInv'
  <2> SUFFICES ASSUME IncidentInv, [Provider!Next]_(Provider!vars) PROVE IncidentInv'
    BY DEF Next, vars, Only, providerVars, Provider!vars
  <2>1. CASE UNCHANGED Provider!vars
    BY <2>1 DEF IncidentInv, Provider!vars
  <2> QED
    BY <2>1, IncidentKept DEF Provider!Next, Provider!IngestLate
<1>3. IncidentInv /\ [Next]_vars =>
        [LET new == incidents' \ incidents
             raised == {e \in new : e[1] # "recovered"}
             ends == new \ raised
         IN  /\ open \in Provider!Flagged =>
                  \A e \in raised : Provider!Rank(e[1]) > Provider!Rank(open)
             /\ open \in Provider!Flagged /\ row'.health = "healthy"
                  /\ row'.blocked = 0 /\ row'.disabled = 0 => ends # {}
             /\ ends # {} => open # "none" \/ raised # {}]_(Provider!vars)
  <2>1. CASE UNCHANGED Provider!vars
    BY <2>1
  <2>2. CASE IncidentInv /\ \E o \in Provider!Observations : Provider!Ingest(o)
    BY <2>2, IncidentKept
  <2> QED
    BY <2>1, <2>2 DEF Next, vars, Only, providerVars, Provider!vars, Provider!Next, Provider!IngestLate
<1> QED
  BY <1>1, <1>2, <1>3, PTL DEF Spec, Provider!OutagesClosed

\* The events of a poll, in the order they are told.
Has(v, e) == \E i \in 1 .. Len(v) : v[i] = e
Orders ==
    {<<>>, <<"recovery">>, <<"reset">>, <<"low_remaining">>, <<"recovery", "reset">>,
     <<"recovery", "low_remaining">>, <<"reset", "low_remaining">>,
     <<"recovery", "reset", "low_remaining">>, <<"repeated_failure">>}

\* None is told twice, and the rest of an order is one.
LEMMA OrdersAre ==
  ASSUME NEW v \in Orders
  PROVE  /\ v # <<>> => /\ Tail(v) \in Orders /\ ~Has(Tail(v), Head(v))
                        /\ \A e : Has(v, e) <=> e = Head(v) \/ Has(Tail(v), e)
         /\ \A e : Has(v, e) => v # <<>>
         /\ Has(v, "repeated_failure") => v = <<"repeated_failure">>
<1>1. CASE v = <<>>
  BY <1>1 DEF Has
<1>2. ASSUME NEW e, v = <<e>>
      PROVE  Tail(v) = <<>> /\ Head(v) = e /\ ~Has(Tail(v), Head(v))
             /\ \A x : Has(v, x) <=> x = e
  BY <1>2 DEF Has
<1>7. CASE v \in {<<"recovery">>, <<"reset">>, <<"low_remaining">>, <<"repeated_failure">>}
  <2>1. <<>> \in Orders /\ \A e : ~Has(<<>>, e)
    BY DEF Orders, Has
  <2> QED
    BY <1>2, <1>7, <2>1
<1>3. CASE v = <<"recovery", "reset">>
  BY <1>3 DEF Has, Orders
<1>4. CASE v = <<"recovery", "low_remaining">>
  BY <1>4 DEF Has, Orders
<1>5. CASE v = <<"reset", "low_remaining">>
  BY <1>5 DEF Has, Orders
<1>6. CASE v = <<"recovery", "reset", "low_remaining">>
  BY <1>6 DEF Has, Orders
<1> QED
  BY <1>1, <1>3, <1>4, <1>5, <1>6, <1>7 DEF Orders

\* Sequences of one or two elements and one more.
LEMMA PairIs ==
  ASSUME NEW e, NEW f
  PROVE  <<e>> \o <<f>> = <<e, f>>
<1> DEFINE a == <<e>>
           b == <<f>>
           c == <<e, f>>
<1>1. a \in Seq({e, f}) /\ b \in Seq({e, f}) /\ c \in Seq({e, f})
  OBVIOUS
<1>2. /\ Len(a) = 1 /\ Len(b) = 1 /\ Len(c) = 2
      /\ a[1] = e /\ b[1] = f /\ c[1] = e /\ c[2] = f
  OBVIOUS
<1> HIDE DEF a, b, c
<1>3. (a \o b) \in Seq({e, f}) /\ Len(a \o b) = 2 /\ (a \o b)[1] = e /\ (a \o b)[2] = f
  BY <1>1, <1>2, ConcatProperties
<1>4. \A i \in 1 .. 2 : (a \o b)[i] = c[i]
  BY <1>2, <1>3
<1> QED
  BY <1>1, <1>2, <1>3, <1>4, SeqEqual DEF a, b, c

LEMMA TripleIs ==
  ASSUME NEW e, NEW f, NEW g
  PROVE  <<e, f>> \o <<g>> = <<e, f, g>>
<1> DEFINE a == <<e, f>>
           b == <<g>>
           c == <<e, f, g>>
           S == {e, f, g}
<1>1. a \in Seq(S) /\ b \in Seq(S) /\ c \in Seq(S)
  OBVIOUS
<1>2. /\ Len(a) = 2 /\ Len(b) = 1 /\ Len(c) = 3
      /\ a[1] = e /\ a[2] = f /\ b[1] = g /\ c[1] = e /\ c[2] = f /\ c[3] = g
  OBVIOUS
<1> HIDE DEF a, b, c, S
<1>3. /\ (a \o b) \in Seq(S) /\ Len(a \o b) = 3
      /\ (a \o b)[1] = e /\ (a \o b)[2] = f /\ (a \o b)[3] = g
  <2>1. /\ (a \o b) \in Seq(S) /\ Len(a \o b) = Len(a) + Len(b)
        /\ \A i \in 1 .. Len(a) + Len(b) :
             (a \o b)[i] = IF i <= Len(a) THEN a[i] ELSE b[i - Len(a)]
    BY <1>1, ConcatProperties
  <2>2. \A i \in 1 .. 3 : (a \o b)[i] = IF i <= 2 THEN a[i] ELSE b[i - 2]
    BY <1>2, <2>1
  <2> DEFINE v == a \o b
  <2> HIDE DEF v
  <2>3. \A i \in 1 .. 3 : v[i] = IF i <= 2 THEN a[i] ELSE b[i - 2]
    BY <2>2 DEF v
  <2>4. 1 \in 1 .. 3 /\ 2 \in 1 .. 3 /\ 3 \in 1 .. 3 /\ 3 - 2 = 1 /\ ~(3 <= 2)
    OBVIOUS
  <2>5. v[1] = a[1] /\ v[2] = a[2] /\ v[3] = b[1]
    BY <2>3, <2>4
  <2> QED
    BY <1>2, <2>1, <2>5 DEF v
<1>4. \A i \in 1 .. 3 : (a \o b)[i] = c[i]
  BY <1>2, <1>3
<1> QED
  BY <1>1, <1>2, <1>3, <1>4, SeqEqual DEF a, b, c

\* What a poll that saw the quota tells.
LEMMA SeenOrder ==
  ASSUME NEW s, NEW o
  PROVE  /\ Codex!SeenEvents(s, o) \in Orders
         /\ Has(Codex!SeenEvents(s, o), "recovery") <=> s.alerted
         /\ Has(Codex!SeenEvents(s, o), "low_remaining") <=>
              s.reset # 0 /\ Codex!IsLow(o) /\ (o.reset # s.reset \/ ~s.low)
         /\ ~Has(Codex!SeenEvents(s, o), "repeated_failure")
<1> DEFINE low == s.reset # 0 /\ Codex!IsLow(o) /\ (o.reset # s.reset \/ ~s.low)
           ended == s.reset # 0 /\ o.reset # s.reset
           a == IF s.alerted THEN <<"recovery">> ELSE <<>>
           b == IF ended THEN <<"reset">> ELSE <<>>
           c == IF low THEN <<"low_remaining">> ELSE <<>>
<1>1. Codex!SeenEvents(s, o) = a \o b \o c
  BY DEF Codex!SeenEvents
<1>2. \/ s.alerted /\ a = <<"recovery">>
      \/ ~s.alerted /\ a = <<>>
  OBVIOUS
<1>3. b \in {<<"reset">>, <<>>}
  OBVIOUS
<1>4. \/ low /\ c = <<"low_remaining">>
      \/ ~low /\ c = <<>>
  OBVIOUS
<1> HIDE DEF low, ended, a, b, c
<1>5. /\ <<>> \o <<>> = <<>> /\ <<"recovery">> \o <<>> = <<"recovery">>
      /\ <<>> \o <<"reset">> = <<"reset">>
      /\ <<"recovery">> \o <<"reset">> = <<"recovery", "reset">>
  BY PairIs
<1>6. /\ <<"recovery">> \o <<"low_remaining">> = <<"recovery", "low_remaining">>
      /\ <<"reset">> \o <<"low_remaining">> = <<"reset", "low_remaining">>
      /\ <<>> \o <<"low_remaining">> = <<"low_remaining">>
      /\ <<"reset">> \o <<>> = <<"reset">>
  BY PairIs
<1>7. /\ <<"recovery", "reset">> \o <<>> = <<"recovery", "reset">>
      /\ <<"recovery", "reset">> \o <<"low_remaining">>
           = <<"recovery", "reset", "low_remaining">>
  BY TripleIs
<1>8. \A e : ~Has(<<>>, e)
  BY DEF Has
<1>9. \A e, f : Has(<<e>>, f) <=> f = e
  BY DEF Has
<1>10. \A e, f, g : Has(<<e, f>>, g) <=> g = e \/ g = f
  BY DEF Has
<1>11. \A e, f, g, h : Has(<<e, f, g>>, h) <=> h = e \/ h = f \/ h = g
  BY DEF Has
<1>12. CASE s.alerted /\ low
  <2>1. \/ Codex!SeenEvents(s, o) = <<"recovery", "low_remaining">>
        \/ Codex!SeenEvents(s, o) = <<"recovery", "reset", "low_remaining">>
    BY <1>1, <1>2, <1>3, <1>4, <1>5, <1>6, <1>7, <1>12
  <2> QED
    BY <1>10, <1>11, <1>12, <2>1 DEF Orders, low
<1>13. CASE s.alerted /\ ~low
  <2>1. \/ Codex!SeenEvents(s, o) = <<"recovery">>
        \/ Codex!SeenEvents(s, o) = <<"recovery", "reset">>
    BY <1>1, <1>2, <1>3, <1>4, <1>5, <1>6, <1>7, <1>13
  <2> QED
    BY <1>9, <1>10, <1>13, <2>1 DEF Orders, low
<1>14. CASE ~s.alerted /\ low
  <2>1. \/ Codex!SeenEvents(s, o) = <<"low_remaining">>
        \/ Codex!SeenEvents(s, o) = <<"reset", "low_remaining">>
    BY <1>1, <1>2, <1>3, <1>4, <1>5, <1>6, <1>7, <1>14
  <2> QED
    BY <1>9, <1>10, <1>14, <2>1 DEF Orders, low
<1>15. CASE ~s.alerted /\ ~low
  <2>1. \/ Codex!SeenEvents(s, o) = <<>>
        \/ Codex!SeenEvents(s, o) = <<"reset">>
    BY <1>1, <1>2, <1>3, <1>4, <1>5, <1>6, <1>7, <1>15
  <2> QED
    BY <1>8, <1>9, <1>15, <2>1 DEF Orders, low
<1> QED
  BY <1>12, <1>13, <1>14, <1>15

\* The state of the file and the poll, by their fields.
IsState(s) == DOMAIN s = {"reset", "low", "failures", "alerted"} /\ s.alerted \in BOOLEAN
IsPoll(p) == DOMAIN p = {"at", "state", "next", "seen", "events"} /\ p.events \in Orders

\* A state that tells what was last observed, if anything was.
Holds(s) == watched.reset # 0 => s.reset = watched.reset /\ (s.low <=> Codex!IsLow(watched))

WeekTypes ==
    /\ IsState(codexFile) /\ IsPoll(codexPoll) /\ IsState(codexPoll.state) /\ IsState(codexPoll.next)
    /\ codexPoll.at \in {"off", "probe", "saveSeen", "saveFailure", "tell"}
    /\ faults \in Nat /\ codexCrashes \in Nat /\ lows \in {0, 1} /\ alarms \in Int

\* The file holds the last observation and so does the state that a poll works on; what
\* is to be saved and told follows from the two; and a drop is owed by the poll that
\* is about to tell it.
WeekFacts ==
    /\ Holds(codexFile)
    /\ codexPoll.at \in {"probe", "saveSeen", "saveFailure"} => Holds(codexPoll.state)
    /\ watched.reset # 0 /\ ~Codex!IsLow(watched) => lows = 0
    /\ codexPoll.at = "saveSeen" =>
         /\ codexPoll.seen.reset # 0
         /\ codexPoll.next.reset = codexPoll.seen.reset /\ ~codexPoll.next.alerted
         /\ codexPoll.next.low <=> Codex!IsLow(codexPoll.seen)
         /\ codexPoll.events = Codex!SeenEvents(codexPoll.state, codexPoll.seen)
    /\ codexPoll.at = "saveFailure" =>
         /\ Holds(codexPoll.next)
         /\ codexPoll.state.alerted => codexPoll.next.alerted
         /\ codexPoll.events = IF codexPoll.next.alerted /\ ~codexPoll.state.alerted
                               THEN <<"repeated_failure">> ELSE <<>>
    /\ codexPoll.at = "tell" => codexPoll.events # <<>>
    /\ codexPoll.at = "tell" /\ Has(codexPoll.events, "low_remaining") =>
         lows = 0 /\ Codex!IsLow(watched)
    /\ owed => codexPoll.at = "tell" /\ Has(codexPoll.events, "low_remaining")

\* Without faults an alarm is out exactly when the file says so, but for what is about
\* to be told.
WeekAlarms ==
    faults + codexCrashes = 0 =>
      /\ codexPoll.at \in {"probe", "saveSeen", "saveFailure"} =>
           (codexPoll.state.alerted <=> codexFile.alerted)
      /\ codexPoll.at # "tell" => alarms = IF codexFile.alerted THEN 1 ELSE 0
      /\ codexPoll.at = "tell" =>
           IF Has(codexPoll.events, "repeated_failure") THEN alarms = 0 /\ codexFile.alerted
           ELSE IF Has(codexPoll.events, "recovery") THEN alarms = 1 /\ ~codexFile.alerted
           ELSE alarms = IF codexFile.alerted THEN 1 ELSE 0

WeekInv == WeekTypes /\ WeekFacts /\ WeekAlarms

\* A poll at rest, one that failed, one that saw the quota, and one that has saved.
LEMMA IdleIs ==
  /\ IsState(Codex!Unknown) /\ ~Codex!Unknown.alerted /\ Codex!Unknown.reset = 0
  /\ IsPoll(Codex!Idle) /\ Codex!Idle.at = "off" /\ Codex!Idle.events = <<>>
  /\ Codex!Idle.state = Codex!Unknown /\ Codex!Idle.next = Codex!Unknown
BY DEF Codex!Unknown, Codex!Idle, IsState, IsPoll, Orders

LEMMA FailingIs ==
  ASSUME NEW p, IsPoll(p), IsState(p.state)
  PROVE  LET q == Codex!Failing(p)
         IN  /\ IsPoll(q) /\ q.at = "saveFailure" /\ q.state = p.state /\ IsState(q.next)
             /\ q.next.reset = p.state.reset /\ q.next.low = p.state.low
             /\ p.state.alerted => q.next.alerted
             /\ q.events = IF q.next.alerted /\ ~p.state.alerted
                           THEN <<"repeated_failure">> ELSE <<>>
<1> DEFINE s == p.state
           fails == IF s.failures < CodexFailures THEN s.failures + 1 ELSE s.failures
           alert == s.alerted \/ Codex!Alerts(s)
           next == [s EXCEPT !.failures = fails, !.alerted = alert]
           told == IF Codex!Alerts(s) THEN <<"repeated_failure">> ELSE <<>>
           q == [p EXCEPT !.at = "saveFailure", !.next = next, !.events = told]
<1>1. Codex!Failing(p) = q
  BY DEF Codex!Failing, Codex!evaluateFailure
<1>2. alert \in BOOLEAN /\ (s.alerted => alert) /\ (alert /\ ~s.alerted <=> Codex!Alerts(s))
  BY DEF IsState, Codex!Alerts
<1>3. told \in Orders
  BY DEF Orders
<1> HIDE DEF fails, alert
<1>4. /\ IsState(next) /\ next.reset = s.reset /\ next.low = s.low /\ next.alerted = alert
  BY <1>2 DEF IsState
<1> HIDE DEF next
<1>5. told = IF alert /\ ~s.alerted THEN <<"repeated_failure">> ELSE <<>>
  BY <1>2
<1> HIDE DEF told
<1>6. /\ DOMAIN q = {"at", "state", "next", "seen", "events"} /\ q.at = "saveFailure"
      /\ q.state = s /\ q.next = next /\ q.events = told
  BY DEF IsPoll
<1> HIDE DEF q, s
<1>7. IsPoll(q)
  BY <1>3, <1>6 DEF IsPoll
<1> QED
  BY <1>1, <1>2, <1>4, <1>5, <1>6, <1>7 DEF s

LEMMA SeeingIs ==
  ASSUME WeekTypes, NEW o
  PROVE  LET q == Codex!Seeing(o)
         IN  /\ IsPoll(q) /\ q.at = "saveSeen" /\ q.state = codexPoll.state /\ IsState(q.next)
             /\ q.seen = o /\ q.next.reset = o.reset /\ ~q.next.alerted
             /\ q.next.low <=> Codex!IsLow(o)
             /\ q.events = Codex!SeenEvents(q.state, o)
<1> DEFINE next == [reset |-> o.reset, low |-> Codex!NextLow(codexPoll.state, o),
                    failures |-> 0, alerted |-> FALSE]
           told == Codex!SeenEvents(codexPoll.state, o)
           q == [codexPoll EXCEPT !.at = "saveSeen", !.next = next, !.events = told, !.seen = o]
<1>1. Codex!Seeing(o) = q
  BY DEF Codex!Seeing, Codex!evaluateObservation
<1>2. told \in Orders
  BY SeenOrder
<1>3. /\ IsState(next) /\ next.reset = o.reset /\ ~next.alerted
      /\ next.low <=> Codex!IsLow(o)
  BY DEF IsState, Codex!NextLow
<1> HIDE DEF next, told
<1>4. /\ DOMAIN q = {"at", "state", "next", "seen", "events"} /\ q.at = "saveSeen"
      /\ q.state = codexPoll.state /\ q.next = next /\ q.events = told /\ q.seen = o
  BY DEF WeekTypes, IsPoll
<1> HIDE DEF q
<1>5. IsPoll(q)
  BY <1>2, <1>4 DEF IsPoll
<1> QED
  BY <1>1, <1>3, <1>4, <1>5 DEF told

LEMMA FinishIs ==
  ASSUME NEW p, IsPoll(p), IsState(p.state), IsState(p.next)
  PROVE  LET q == Codex!Finish(p)
         IN  /\ IsPoll(q) /\ IsState(q.state) /\ IsState(q.next) /\ q.events = p.events
             /\ q.at = IF p.events = <<>> THEN "off" ELSE "tell"
<1>1. CASE p.events = <<>>
  BY <1>1, IdleIs DEF Codex!Finish
<1>2. CASE p.events # <<>>
  <2> DEFINE q == [p EXCEPT !.at = "tell"]
  <2>1. Codex!Finish(p) = q
    BY <1>2 DEF Codex!Finish
  <2>2. /\ DOMAIN q = {"at", "state", "next", "seen", "events"} /\ q.at = "tell"
        /\ q.state = p.state /\ q.next = p.next /\ q.events = p.events
    BY DEF IsPoll
  <2> HIDE DEF q
  <2> QED
    BY <1>2, <2>1, <2>2 DEF IsPoll
<1> QED
  BY <1>1, <1>2

LEMMA LoadKept ==
  ASSUME WeekInv, Codex!Load
  PROVE  WeekInv'
<1>0. /\ codexPoll.at = "off" /\ UNCHANGED <<codexFile, lows, owed, alarms, codexCrashes>> /\ ~owed
      /\ WeekTypes
  BY DEF Codex!Load, WeekInv, WeekFacts
<1>1. ASSUME NEW s, IsState(s), codexPoll' = [Codex!Idle EXCEPT !.at = "probe", !.state = s]
      PROVE  /\ IsPoll(codexPoll') /\ IsState(codexPoll'.state) /\ IsState(codexPoll'.next)
             /\ codexPoll'.at = "probe" /\ codexPoll'.state = s
  BY <1>1, IdleIs DEF IsPoll
<1>2. CASE /\ codexPoll' = [Codex!Idle EXCEPT !.at = "probe", !.state = codexFile]
           /\ UNCHANGED <<watched, faults>>
  <2>1. /\ IsPoll(codexPoll') /\ IsState(codexPoll'.state) /\ IsState(codexPoll'.next)
        /\ codexPoll'.at = "probe" /\ codexPoll'.state = codexFile
    BY <1>0, <1>1, <1>2 DEF WeekTypes
  <2>2. WeekTypes'
    BY <1>0, <1>2, <2>1 DEF WeekTypes
  <2>3. WeekFacts'
    BY <1>0, <1>2, <2>1 DEF WeekInv, WeekFacts, Holds
  <2>4. WeekAlarms'
    BY <1>0, <1>2, <2>1 DEF WeekInv, WeekAlarms
  <2> QED
    BY <2>2, <2>3, <2>4 DEF WeekInv
<1>3. CASE /\ faults' = faults + 1
           /\ codexPoll' = [Codex!Idle EXCEPT !.at = "probe"] /\ watched' = Codex!Unwatched
  <2>1. /\ IsPoll(codexPoll') /\ IsState(codexPoll'.state) /\ IsState(codexPoll'.next)
        /\ codexPoll'.at = "probe"
    BY <1>3, IdleIs DEF IsPoll
  <2>2. WeekTypes'
    BY <1>0, <1>3, <2>1 DEF WeekTypes
  <2>3. watched'.reset = 0
    BY <1>3 DEF Codex!Unwatched
  <2>4. WeekFacts'
    BY <1>0, <2>1, <2>3 DEF WeekInv, WeekFacts, Holds
  <2>5. faults' + codexCrashes' # 0
    BY <1>0, <1>3 DEF WeekTypes
  <2> QED
    BY <2>2, <2>4, <2>5 DEF WeekInv, WeekAlarms
<1> QED
  BY <1>2, <1>3 DEF Codex!Load, Codex!Fault

\* A poll that goes on to remember a failure.
LEMMA FailingKept ==
  ASSUME WeekInv, codexPoll.at \in {"probe", "saveSeen"}, codexPoll' = Codex!Failing(codexPoll),
         UNCHANGED <<codexFile, watched, lows, owed, alarms, codexCrashes>>,
         faults' \in {faults, faults + 1}
  PROVE  WeekInv'
<1>0. WeekTypes /\ ~owed /\ Holds(codexPoll.state)
  BY DEF WeekInv, WeekFacts
<1>1. /\ IsPoll(codexPoll') /\ codexPoll'.at = "saveFailure" /\ codexPoll'.state = codexPoll.state
      /\ IsState(codexPoll'.next)
      /\ codexPoll'.next.reset = codexPoll.state.reset
      /\ codexPoll'.next.low = codexPoll.state.low
      /\ codexPoll.state.alerted => codexPoll'.next.alerted
      /\ codexPoll'.events = IF codexPoll'.next.alerted /\ ~codexPoll.state.alerted
                             THEN <<"repeated_failure">> ELSE <<>>
  BY <1>0, FailingIs DEF WeekTypes
<1>2. WeekTypes'
  <2>1. faults' \in Nat
    BY <1>0 DEF WeekTypes
  <2> QED
    BY <1>0, <1>1, <2>1 DEF WeekTypes
<1>3. WeekFacts'
  BY <1>0, <1>1 DEF WeekInv, WeekFacts, Holds
<1>4. faults' + codexCrashes' = 0 => faults + codexCrashes = 0
  <2>1. faults \in Nat /\ codexCrashes \in Nat /\ codexCrashes' = codexCrashes
    BY <1>0 DEF WeekTypes
  <2>2. CASE faults' = faults
    BY <2>1, <2>2
  <2>3. CASE faults' = faults + 1
    BY <2>1, <2>3
  <2> QED
    BY <2>2, <2>3
<1>5. WeekAlarms'
  BY <1>1, <1>4 DEF WeekInv, WeekAlarms
<1> QED
  BY <1>2, <1>3, <1>5 DEF WeekInv

LEMMA ProbedKept ==
  ASSUME WeekInv, Codex!Probed
  PROVE  WeekInv'
<1>0. /\ codexPoll.at = "probe" /\ WeekTypes /\ ~owed /\ Holds(codexPoll.state)
      /\ UNCHANGED <<codexFile, watched, lows, owed, alarms, faults, codexCrashes>>
  BY DEF Codex!Probed, WeekInv, WeekFacts
<1>1. CASE codexPoll' = Codex!Failing(codexPoll)
  BY <1>0, <1>1, FailingKept
<1>2. ASSUME NEW o, o.reset # 0, codexPoll' = Codex!Seeing(o)
      PROVE  WeekInv'
  <2>1. /\ IsPoll(codexPoll') /\ codexPoll'.at = "saveSeen" /\ codexPoll'.state = codexPoll.state
        /\ IsState(codexPoll'.next)
        /\ codexPoll'.seen = o /\ codexPoll'.next.reset = o.reset /\ ~codexPoll'.next.alerted
        /\ codexPoll'.next.low <=> Codex!IsLow(o)
        /\ codexPoll'.events = Codex!SeenEvents(codexPoll'.state, o)
    BY <1>0, <1>2, SeeingIs
  <2>2. WeekTypes'
    BY <1>0, <2>1 DEF WeekTypes
  <2>3. WeekFacts'
    BY <1>0, <1>2, <2>1 DEF WeekInv, WeekFacts, Holds
  <2>4. WeekAlarms'
    BY <1>0, <2>1 DEF WeekInv, WeekAlarms
  <2> QED
    BY <2>2, <2>3, <2>4 DEF WeekInv
<1>3. ASSUME NEW output, ~Codex!Refused(output)
      PROVE  Codex!parseOmpUsageResponse(output).reset # 0
  BY <1>3 DEF Codex!Refused, Codex!parseOmpUsageResponse
<1> QED
  BY <1>1, <1>2, <1>3 DEF Codex!Probed

LEMMA SaveSeenKept ==
  ASSUME WeekInv, Codex!SaveSeen
  PROVE  WeekInv'
<1>0. /\ codexPoll.at = "saveSeen" /\ WeekTypes /\ ~owed /\ UNCHANGED <<alarms, codexCrashes>>
      /\ Holds(codexPoll.state) /\ lows \in {0, 1} /\ faults \in Nat /\ codexCrashes \in Nat
      /\ codexPoll.seen.reset # 0
      /\ codexPoll.next.reset = codexPoll.seen.reset /\ ~codexPoll.next.alerted
      /\ codexPoll.next.low <=> Codex!IsLow(codexPoll.seen)
      /\ codexPoll.events = Codex!SeenEvents(codexPoll.state, codexPoll.seen)
      /\ watched.reset # 0 /\ ~Codex!IsLow(watched) => lows = 0
  BY DEF Codex!SaveSeen, WeekInv, WeekFacts, WeekTypes
<1> DEFINE s == codexPoll.state
           o == codexPoll.seen
<1>1. /\ Has(codexPoll.events, "recovery") <=> s.alerted
      /\ Has(codexPoll.events, "low_remaining") <=>
           s.reset # 0 /\ Codex!IsLow(o) /\ (o.reset # s.reset \/ ~s.low)
      /\ ~Has(codexPoll.events, "repeated_failure")
  BY <1>0, SeenOrder
<1>2. CASE /\ codexFile' = codexPoll.next /\ codexPoll' = Codex!Finish(codexPoll)
           /\ watched' = o /\ owed' = Codex!Dropped(o)
           /\ lows' = IF Codex!IsLow(o) /\ o.reset = watched.reset THEN lows ELSE 0
           /\ UNCHANGED faults
  <2>1. /\ IsPoll(codexPoll') /\ IsState(codexPoll'.state) /\ IsState(codexPoll'.next)
        /\ codexPoll'.events = codexPoll.events
        /\ codexPoll'.at = IF codexPoll.events = <<>> THEN "off" ELSE "tell"
    BY <1>0, <1>2, FinishIs DEF WeekTypes
  <2>2. codexPoll.events \in Orders /\ \A e : Has(codexPoll.events, e) => codexPoll.events # <<>>
    <3>1. codexPoll.events \in Orders
      BY <1>0 DEF WeekTypes, IsPoll
    <3> QED
      BY <3>1, OrdersAre
  <2>3. WeekTypes'
    BY <1>0, <1>2, <2>1 DEF WeekTypes
  <2>4. Has(codexPoll.events, "low_remaining") => lows' = 0 /\ Codex!IsLow(o)
    <3> SUFFICES ASSUME Has(codexPoll.events, "low_remaining"), o.reset = watched.reset
                 PROVE  lows = 0
      BY <1>1, <1>2
    <3>1. watched.reset # 0 /\ s.reset = watched.reset /\ (s.low <=> Codex!IsLow(watched))
      BY <1>0 DEF Holds
    <3>2. ~s.low
      BY <1>1, <3>1
    <3> QED
      BY <1>0, <3>1, <3>2
  <2>5. owed' => Has(codexPoll.events, "low_remaining")
    <3> SUFFICES ASSUME owed' PROVE Has(codexPoll.events, "low_remaining")
      OBVIOUS
    <3>1. /\ watched.reset # 0 /\ Codex!IsLow(o)
          /\ ~Codex!IsLow(watched) \/ watched.reset # o.reset
      BY <1>2 DEF Codex!Dropped
    <3>2. s.reset = watched.reset /\ (s.low <=> Codex!IsLow(watched))
      BY <1>0, <3>1 DEF Holds
    <3> QED
      BY <1>1, <3>1, <3>2
  <2>6. Holds(codexFile)'
    BY <1>0, <1>2 DEF Holds
  <2>7. watched'.reset # 0 /\ ~Codex!IsLow(watched)' => lows' = 0
    BY <1>2 DEF Codex!IsLow
  <2>8. /\ (codexPoll.at = "tell" /\ Has(codexPoll.events, "low_remaining") =>
              lows = 0 /\ Codex!IsLow(watched))'
        /\ (owed => codexPoll.at = "tell" /\ Has(codexPoll.events, "low_remaining"))'
    BY <1>2, <2>1, <2>2, <2>4, <2>5 DEF Codex!IsLow
  <2>9. WeekFacts'
    BY <2>1, <2>6, <2>7, <2>8 DEF WeekFacts
  <2>10. WeekAlarms'
    <3> SUFFICES ASSUME faults + codexCrashes = 0
                 PROVE  /\ codexPoll'.at # "tell" => alarms = 0
                        /\ codexPoll'.at = "tell" =>
                             IF Has(codexPoll.events, "recovery") THEN alarms = 1
                                                                  ELSE alarms = 0
      BY <1>0, <1>1, <1>2, <2>1 DEF WeekAlarms
    <3>1. alarms = IF s.alerted THEN 1 ELSE 0
      BY <1>0 DEF WeekInv, WeekAlarms
    <3>2. codexPoll'.at # "tell" => ~s.alerted
      BY <1>1, <2>1, <2>2
    <3> QED
      BY <1>1, <3>1, <3>2
  <2> QED
    BY <2>3, <2>9, <2>10 DEF WeekInv
<1>3. CASE /\ faults' = faults + 1
           /\ codexPoll' = Codex!Failing(codexPoll) /\ UNCHANGED <<codexFile, watched, owed, lows>>
  BY <1>0, <1>3, FailingKept
<1> QED
  BY <1>2, <1>3 DEF Codex!SaveSeen, Codex!Fault

LEMMA SaveFailureKept ==
  ASSUME WeekInv, Codex!SaveFailure
  PROVE  WeekInv'
<1>0. /\ codexPoll.at = "saveFailure" /\ WeekTypes /\ ~owed
      /\ UNCHANGED <<watched, lows, owed, alarms, codexCrashes>>
      /\ codexPoll' = Codex!Finish(codexPoll)
      /\ \/ codexFile' = codexPoll.next /\ UNCHANGED faults
         \/ faults' = faults + 1 /\ UNCHANGED codexFile
      /\ Holds(codexPoll.next)
      /\ codexPoll.state.alerted => codexPoll.next.alerted
      /\ codexPoll.events = IF codexPoll.next.alerted /\ ~codexPoll.state.alerted
                            THEN <<"repeated_failure">> ELSE <<>>
  BY DEF Codex!SaveFailure, Codex!Fault, WeekInv, WeekFacts
<1>1. /\ IsPoll(codexPoll') /\ IsState(codexPoll'.state) /\ IsState(codexPoll'.next)
      /\ codexPoll'.events = codexPoll.events
      /\ codexPoll'.at = IF codexPoll.events = <<>> THEN "off" ELSE "tell"
  BY <1>0, FinishIs DEF WeekTypes
<1>2. /\ ~Has(codexPoll.events, "low_remaining") /\ ~Has(codexPoll.events, "recovery")
      /\ Has(codexPoll.events, "repeated_failure") <=> codexPoll.events # <<>>
      /\ codexPoll.events # <<>> <=> codexPoll.next.alerted /\ ~codexPoll.state.alerted
  BY <1>0 DEF Has
<1>3. WeekTypes'
  <2>1. faults' \in Nat
    BY <1>0 DEF WeekTypes
  <2> QED
    BY <1>0, <1>1, <2>1 DEF WeekTypes
<1>4. Holds(codexFile)'
  BY <1>0 DEF WeekInv, WeekFacts, Holds
<1>5. WeekFacts'
  <2>1. watched'.reset # 0 /\ ~Codex!IsLow(watched)' => lows' = 0
    BY <1>0 DEF WeekInv, WeekFacts, Codex!IsLow
  <2> QED
    BY <1>0, <1>1, <1>2, <1>4, <2>1 DEF WeekFacts
<1>6. WeekAlarms'
  <2> SUFFICES ASSUME faults' + codexCrashes' = 0 PROVE WeekAlarms'
    BY DEF WeekAlarms
  <2>1. faults' = faults /\ codexFile' = codexPoll.next /\ faults + codexCrashes = 0
    BY <1>0 DEF WeekTypes
  <2>2. /\ codexPoll.state.alerted <=> codexFile.alerted
        /\ alarms = IF codexFile.alerted THEN 1 ELSE 0
    BY <1>0, <2>1 DEF WeekInv, WeekAlarms
  <2> QED
    BY <1>0, <1>1, <1>2, <2>1, <2>2 DEF WeekAlarms
<1> QED
  BY <1>3, <1>5, <1>6 DEF WeekInv

\* One event is told, or its message fails.
LEMMA WeekToldKept ==
  ASSUME WeekInv, Codex!processOmpQuotaTransition
  PROVE  WeekInv'
<1> DEFINE v == codexPoll.events
           event == Head(v)
           p == [codexPoll EXCEPT !.events = Tail(v)]
<1>0. /\ codexPoll.at = "tell" /\ WeekTypes /\ v # <<>> /\ v \in Orders
      /\ UNCHANGED <<codexFile, watched, codexCrashes>> /\ codexPoll' = Codex!Finish(p)
      /\ owed' = (owed /\ event # "low_remaining")
      /\ \/ /\ lows' = IF event = "low_remaining" THEN lows + 1 ELSE lows
            /\ alarms' = CASE event = "repeated_failure" -> alarms + 1
                           [] event = "recovery" -> alarms - 1
                           [] OTHER -> alarms
            /\ UNCHANGED faults
         \/ faults' = faults + 1 /\ UNCHANGED <<lows, alarms>>
  BY DEF Codex!processOmpQuotaTransition, Codex!Fault, WeekInv, WeekFacts, WeekTypes, IsPoll
<1>1. /\ Tail(v) \in Orders /\ ~Has(Tail(v), event)
      /\ \A e : Has(v, e) <=> e = event \/ Has(Tail(v), e)
      /\ \A e : Has(Tail(v), e) => Tail(v) # <<>>
      /\ Has(v, "repeated_failure") => event = "repeated_failure" /\ Tail(v) = <<>>
  <2>1. Has(v, "repeated_failure") => v = <<"repeated_failure">>
    BY <1>0, OrdersAre
  <2> HIDE DEF v
  <2>2. v = <<"repeated_failure">> => Head(v) = "repeated_failure" /\ Tail(v) = <<>>
    OBVIOUS
  <2> QED
    BY <1>0, <2>1, <2>2, OrdersAre
<1>2. IsPoll(p) /\ p.events = Tail(v) /\ IsState(p.state) /\ IsState(p.next)
  BY <1>0, <1>1 DEF WeekTypes, IsPoll
<1> HIDE DEF p
<1>3. /\ IsPoll(codexPoll') /\ IsState(codexPoll'.state) /\ IsState(codexPoll'.next)
      /\ codexPoll'.events = Tail(v)
      /\ codexPoll'.at = IF Tail(v) = <<>> THEN "off" ELSE "tell"
  BY <1>0, <1>2, FinishIs
<1>4. /\ lows \in {0, 1} /\ alarms \in Int /\ faults \in Nat /\ codexCrashes \in Nat
      /\ Has(v, "low_remaining") => lows = 0 /\ Codex!IsLow(watched)
      /\ owed => Has(v, "low_remaining")
  BY <1>0 DEF WeekInv, WeekTypes, WeekFacts
<1> HIDE DEF v, event
<1>5. /\ lows' \in {0, 1} /\ alarms' \in Int /\ faults' \in Nat
      /\ lows' # lows => event = "low_remaining"
  BY <1>0, <1>1, <1>4
<1>6. WeekTypes'
  BY <1>0, <1>3, <1>5 DEF WeekTypes
<1>7. WeekFacts'
  <2>1. watched'.reset # 0 /\ ~Codex!IsLow(watched)' => lows' = 0
    <3>1. event = "low_remaining" => Codex!IsLow(watched)
      BY <1>1, <1>4
    <3>2. Codex!IsLow(watched)' <=> Codex!IsLow(watched)
      BY <1>0 DEF Codex!IsLow
    <3> QED
      BY <1>0, <1>5, <3>1, <3>2 DEF WeekInv, WeekFacts
  <2>2. Has(Tail(v), "low_remaining") => lows' = 0 /\ Codex!IsLow(watched)'
    BY <1>0, <1>1, <1>4, <1>5 DEF Codex!IsLow
  <2>3. owed' => Has(Tail(v), "low_remaining")
    BY <1>0, <1>1, <1>4
  <2>4. Holds(codexFile)'
    BY <1>0 DEF WeekInv, WeekFacts, Holds
  <2> QED
    BY <1>1, <1>3, <2>1, <2>2, <2>3, <2>4 DEF WeekFacts
<1>8. WeekAlarms'
  <2> SUFFICES ASSUME faults' + codexCrashes' = 0 PROVE WeekAlarms'
    BY DEF WeekAlarms
  <2>1. /\ faults' = faults /\ faults + codexCrashes = 0
        /\ alarms' = IF event = "repeated_failure" THEN alarms + 1
                     ELSE IF event = "recovery" THEN alarms - 1 ELSE alarms
    BY <1>0, <1>4
  <2>2. IF Has(v, "repeated_failure") THEN alarms = 0 /\ codexFile.alerted
        ELSE IF Has(v, "recovery") THEN alarms = 1 /\ ~codexFile.alerted
        ELSE alarms = IF codexFile.alerted THEN 1 ELSE 0
    BY <1>0, <2>1 DEF WeekInv, WeekAlarms, v
  <2>3. IF Has(Tail(v), "repeated_failure") THEN alarms' = 0 /\ codexFile.alerted
        ELSE IF Has(Tail(v), "recovery") THEN alarms' = 1 /\ ~codexFile.alerted
        ELSE alarms' = IF codexFile.alerted THEN 1 ELSE 0
    BY <1>1, <2>1, <2>2
  <2>4. Tail(v) = <<>> => ~Has(Tail(v), "repeated_failure") /\ ~Has(Tail(v), "recovery")
    BY <1>1
  <2> QED
    BY <1>0, <1>3, <2>3, <2>4 DEF WeekAlarms
<1> QED
  BY <1>6, <1>7, <1>8 DEF WeekInv

LEMMA WeekCrashKept ==
  ASSUME WeekInv, Codex!Crash
  PROVE  WeekInv'
<1>0. /\ codexCrashes' = codexCrashes + 1 /\ codexPoll' = Codex!Idle /\ owed' = FALSE
      /\ UNCHANGED <<codexFile, watched, lows, alarms, faults>> /\ WeekTypes
  BY DEF Codex!Crash, WeekInv
<1>1. WeekTypes'
  BY <1>0, IdleIs DEF WeekTypes
<1>2. WeekFacts'
  BY <1>0, IdleIs DEF WeekInv, WeekFacts, Holds, Codex!IsLow
<1>3. faults' + codexCrashes' # 0
  BY <1>0 DEF WeekTypes
<1> QED
  BY <1>1, <1>2, <1>3 DEF WeekInv, WeekAlarms

\* A drop that was saved is told once, by the poll that saw it.
LEMMA WeekIsTold == Spec => []Codex!DropToldOnce
<1>1. Init => WeekInv
  <2> SUFFICES ASSUME Init PROVE WeekInv
    OBVIOUS
  <2>1. /\ codexFile = Codex!Unknown /\ codexPoll = Codex!Idle /\ watched = Codex!Unwatched
        /\ lows = 0 /\ owed = FALSE /\ alarms = 0 /\ faults = 0 /\ codexCrashes = 0
    BY DEF Init, Codex!Init
  <2>2. watched.reset = 0
    BY <2>1 DEF Codex!Unwatched
  <2> QED
    BY <2>1, <2>2, IdleIs DEF WeekInv, WeekTypes, WeekFacts, WeekAlarms, Holds
<1>2. WeekInv /\ [Next]_vars => WeekInv'
  <2> SUFFICES ASSUME WeekInv, [Codex!Next]_(Codex!vars) PROVE WeekInv'
    BY DEF Next, vars, Only, codexVars, Codex!vars
  <2>1. CASE UNCHANGED Codex!vars
    BY <2>1 DEF WeekInv, WeekTypes, WeekFacts, WeekAlarms, Holds, Codex!IsLow, Codex!vars
  <2> QED
    BY <2>1, LoadKept, ProbedKept, SaveSeenKept, SaveFailureKept, WeekToldKept, WeekCrashKept
    DEF Codex!Next
<1>3. WeekInv => Codex!DropToldOnce
  <2> SUFFICES ASSUME WeekInv PROVE Codex!DropToldOnce
    OBVIOUS
  <2>1. lows <= 1 /\ (owed => codexPoll.at = "tell" /\ Has(codexPoll.events, "low_remaining"))
    BY DEF WeekInv, WeekTypes, WeekFacts
  <2>2. faults + codexCrashes = 0 => alarms \in {0, 1}
    BY DEF WeekInv, WeekTypes, WeekAlarms
  <2> QED
    BY <2>1, <2>2 DEF Has, Codex!DropToldOnce, Codex!Contains
<1> QED
  BY <1>1, <1>2, <1>3, PTL DEF Spec

\* A fall of a quota is told, an outage is announced once and ended once, and a drop of
\* the weekly quota is told once.
THEOREM AlertsToldHolds == Spec => AlertsTold
BY DropsAreTold, OutagesAreClosed, WeekIsTold DEF AlertsTold

(***************************************************************************)
(* The balances of an account                                              *)
(***************************************************************************)

RunRows ==
  [ok : BOOLEAN, balance : {-1} \cup CheckBalances, grant : Nat, started : Nat, ended : Nat]
SeenRows == [run : Nat, balance : CheckBalances, previous : {-1} \cup CheckBalances]

LedgerTypes ==
    /\ up \in BOOLEAN /\ checkClock \in Nat /\ setBacks \in Nat /\ reported \in Int
    /\ checkRuns \in Seq(RunRows) /\ pending \in 0 .. Len(checkRuns)
    /\ creditRows \subseteq [run : DOMAIN checkRuns, previous : {-1} \cup CheckBalances]
    /\ grantRows \subseteq [event : Nat \ {0}, run : DOMAIN checkRuns]
    /\ balances \in [at : {-1} \cup Nat, balance : {-1} \cup CheckBalances,
                     low : BOOLEAN, epoch : Nat]
    /\ observed \in Seq(SeenRows)
    /\ \A i \in DOMAIN observed : observed[i].run \in DOMAIN checkRuns
    /\ endpoints \in Seq({-1} \cup CheckBalances)

\* The runs of older versions, before the first start has given them rows.
Old ==
    /\ ~up /\ creditRows = {} /\ Len(checkRuns) <= 2
    /\ \A r \in DOMAIN checkRuns :
         checkRuns[r].ok /\ checkRuns[r].started = r - 1 /\ checkRuns[r].ended = r - 1
\* Every run that counts has its row, and no other; a grant has one at most.
Rowed == \A r \in DOMAIN checkRuns :
           r \in Ledger!Counted(checkRuns) <=> \E c \in creditRows : c.run = r
RowInv ==
    /\ Old \/ Rowed
    /\ \A c \in creditRows : c.previous =
         LET earlier == {r \in 1 .. c.run - 1 : checkRuns[r].ok}
         IN  IF earlier = {} THEN -1 ELSE checkRuns[Ledger!Max(earlier)].balance
    /\ \A p, q \in grantRows : p.event = q.event => p = q
    /\ \A p \in grantRows, r \in DOMAIN checkRuns : checkRuns[r].grant = p.event => p.run <= r
    /\ up => \A r \in DOMAIN checkRuns :
               checkRuns[r].grant # 0 => \E p \in grantRows : p.event = checkRuns[r].grant

\* As long as the clock is not set back, runs end one after the other, and are recorded
\* in this order.
TimeInv ==
    /\ \A r \in DOMAIN checkRuns : checkRuns[r].ended <= checkClock
    /\ \A q, r \in DOMAIN checkRuns : q < r => checkRuns[q].ended < checkRuns[r].ended
    /\ \A i, j \in DOMAIN observed : i < j => observed[i].run < observed[j].run
    /\ pending # 0 => \A i \in DOMAIN observed : observed[i].run < pending

\* The balance is low: it was, and has not been well above since.
LowSince(n) ==
    \E j \in 1 .. n : /\ observed[j].balance <= LowBalance
                      /\ \A k \in j + 1 .. n : ~(observed[k].balance > RearmedBalance)

\* The tracker is what the observations come to; each event is one of theirs.
TrackInv ==
    /\ IF observed = <<>> THEN balances = Ledger!Untracked
       ELSE /\ balances.at = Ledger!Moment(Len(observed))
            /\ balances.balance = observed[Len(observed)].balance
    /\ balances.low <=> LowSince(Len(observed))
    /\ balances.epoch = Ledger!Cardinality(Ledger!Dips) + (IF balances.low THEN 0 ELSE 1)
    /\ \A e : e \in Ledger!Of("grant") <=>
               \E i \in Ledger!Rose : e = <<"grant", Ledger!Moment(i), Ledger!Change(i)>>
    /\ \A e : e \in Ledger!Of("drop") <=>
               \E i \in Ledger!Fell : e = <<"drop", Ledger!Moment(i), observed[i - 1].balance,
                                            observed[i].balance>>
    /\ \A e : e \in Ledger!Of("low") <=>
               \E n \in 1 .. Ledger!Cardinality(Ledger!Dips) : e = <<"low", n>>

BalanceInv ==
    /\ LedgerTypes /\ RowInv /\ Ledger!PollsAgree
    /\ setBacks = 0 => TimeInv /\ TrackInv

\* The greatest and the least of a set of numbers, as CHOOSE finds them.
LEMMA MaxIs ==
  ASSUME NEW T \in SUBSET Nat, NEW m \in T, \A y \in T : y <= m
  PROVE  Ledger!Max(T) = m
<1>1. \A x \in T : (\A y \in T : x >= y) => x = m
  OBVIOUS
<1>2. \E x \in T : \A y \in T : x >= y
  OBVIOUS
<1> QED
  BY <1>1, <1>2 DEF Ledger!Max

\* Likewise.
LEMMA MinIs ==
  ASSUME NEW T \in SUBSET Nat, NEW m \in T, \A y \in T : m <= y
  PROVE  Ledger!Min(T) = m
<1>1. \A x \in T : (\A y \in T : x =< y) => x = m
  OBVIOUS
<1>2. \E x \in T : \A y \in T : x =< y
  OBVIOUS
<1> QED
  BY <1>1, <1>2 DEF Ledger!Min

\* The events, the order of the runs and the tracker depend on nothing else.
LEMMA TrackSame ==
  ASSUME TrackInv, LedgerTypes, UNCHANGED <<balances, observed, alerts>>,
         \A r \in DOMAIN checkRuns : checkRuns'[r] = checkRuns[r]
  PROVE  TrackInv'
<1>1. \A i \in DOMAIN observed : Ledger!Moment(i)' = Ledger!Moment(i)
  BY DEF LedgerTypes, Ledger!Moment
<1>2. /\ Ledger!Rose' = Ledger!Rose /\ Ledger!Fell' = Ledger!Fell
      /\ Ledger!Dips' = Ledger!Dips
      /\ \A i \in DOMAIN observed : Ledger!Change(i)' = Ledger!Change(i)
      /\ LowSince(Len(observed))' <=> LowSince(Len(observed))
  BY DEF Ledger!Rose, Ledger!Fell, Ledger!Dips, Ledger!Change, LowSince
<1>3. Ledger!Rose \subseteq DOMAIN observed /\ Ledger!Fell \subseteq DOMAIN observed
  BY DEF Ledger!Rose, Ledger!Fell
<1>4. Ledger!Cardinality(Ledger!Dips)' = Ledger!Cardinality(Ledger!Dips)
  BY <1>2
<1>5. \A type : Ledger!Of(type)' = Ledger!Of(type)
  BY DEF Ledger!Of
<1>6. observed # <<>> => Len(observed) \in DOMAIN observed
  BY DEF LedgerTypes
<1>7. IF observed' = <<>> THEN balances' = Ledger!Untracked'
      ELSE /\ balances'.at = Ledger!Moment(Len(observed))'
           /\ balances'.balance = observed'[Len(observed')].balance
  BY <1>1, <1>6 DEF TrackInv, Ledger!Untracked
<1>8. /\ balances'.low <=> LowSince(Len(observed))'
      /\ balances'.epoch = Ledger!Cardinality(Ledger!Dips)' + (IF balances'.low THEN 0 ELSE 1)
      /\ \A e : e \in Ledger!Of("low")' <=>
                 \E n \in 1 .. Ledger!Cardinality(Ledger!Dips)' : e = <<"low", n>>
  BY <1>2, <1>4, <1>5 DEF TrackInv
<1>9. /\ \A e : e \in Ledger!Of("grant")' <=>
                 \E i \in Ledger!Rose' : e = <<"grant", Ledger!Moment(i)', Ledger!Change(i)'>>
      /\ \A e : e \in Ledger!Of("drop")' <=>
                 \E i \in Ledger!Fell' : e = <<"drop", Ledger!Moment(i)', observed'[i - 1].balance,
                                              observed'[i].balance>>
  BY <1>1, <1>2, <1>3, <1>5 DEF TrackInv
<1> QED
  BY <1>7, <1>8, <1>9 DEF TrackInv

\* The sum of the deltas depends on the polls alone.
LEMMA PollsSame ==
  ASSUME Ledger!PollsAgree, UNCHANGED <<endpoints, reported>>
  PROVE  Ledger!PollsAgree'
BY DEF Ledger!PollsAgree

\* A step that stores no run, writes no row and tells nothing.
LEMMA LedgerSame ==
  ASSUME BalanceInv, UNCHANGED <<checkRuns, creditRows, grantRows, balances, observed, alerts,
                                 endpoints, reported>>,
         up' \in BOOLEAN, up' => up, checkClock' \in Nat, setBacks' \in Nat,
         setBacks' = 0 => setBacks = 0 /\ checkClock' = checkClock, pending' \in {0, pending}
  PROVE  BalanceInv'
<1>1. LedgerTypes'
  BY DEF BalanceInv, LedgerTypes
<1>2. RowInv'
  <2>1. (Old \/ Rowed)'
    BY DEF BalanceInv, RowInv, Old, Rowed, Ledger!Counted
  <2>2. /\ \A p, q \in grantRows' : p.event = q.event => p = q
        /\ \A p \in grantRows', r \in DOMAIN checkRuns' :
             checkRuns'[r].grant = p.event => p.run <= r
        /\ up' => \A r \in DOMAIN checkRuns' :
             checkRuns'[r].grant # 0 => \E p \in grantRows' : p.event = checkRuns'[r].grant
    BY DEF BalanceInv, RowInv
  <2>3. \A c \in creditRows' : c.previous =
          LET earlier == {r \in 1 .. c.run - 1 : checkRuns'[r].ok}
          IN  IF earlier = {} THEN -1 ELSE checkRuns'[Ledger!Max(earlier)].balance
    BY DEF BalanceInv, RowInv
  <2> QED
    BY <2>1, <2>2, <2>3 DEF RowInv
<1>3. setBacks' = 0 => TimeInv'
  BY DEF BalanceInv, TimeInv
<1>4. setBacks' = 0 => TrackInv'
  BY TrackSame DEF BalanceInv
<1> QED
  BY <1>1, <1>2, <1>3, <1>4, PollsSame DEF BalanceInv

\* The process ends; what was not recorded yet is lost.
LEMMA LedgerEnds ==
  ASSUME BalanceInv, Ledger!Crash PROVE BalanceInv'
<1>1. /\ up' = FALSE /\ pending' = 0
      /\ UNCHANGED <<checkClock, checkRuns, creditRows, grantRows, balances, observed, alerts,
                     endpoints, reported, setBacks>>
  BY DEF Ledger!Crash
<1> QED
  BY <1>1, LedgerSame DEF BalanceInv, LedgerTypes

\* The clock is set back.
LEMMA ClockSetBack ==
  ASSUME BalanceInv, Ledger!SetBack PROVE BalanceInv'
<1>1. /\ setBacks' = setBacks + 1 /\ checkClock' \in 0 .. checkClock - 1
      /\ UNCHANGED <<up, pending, checkRuns, creditRows, grantRows, balances, observed, alerts,
                     endpoints, reported>>
  BY DEF Ledger!SetBack
<1>2. up \in BOOLEAN /\ checkClock \in Nat /\ setBacks \in Nat
  BY DEF BalanceInv, LedgerTypes
<1>3. checkClock' \in Nat /\ setBacks' \in Nat /\ setBacks' # 0
  BY <1>1, <1>2
<1> QED
  BY <1>1, <1>2, <1>3, LedgerSame

\* What the first start finds without a row, and what it writes for it.
LEMMA OldRows ==
  ASSUME BalanceInv, Old
  PROVE  LET fresh == Ledger!backfillCreditObservations
         IN  /\ fresh \subseteq [run : DOMAIN checkRuns, previous : {-1} \cup CheckBalances]
             /\ \A r \in DOMAIN checkRuns :
                  r \in Ledger!Counted(checkRuns) <=> \E c \in fresh : c.run = r
             /\ \A c \in fresh : c.previous =
                  LET earlier == {r \in 1 .. c.run - 1 : checkRuns[r].ok}
                  IN  IF earlier = {} THEN -1 ELSE checkRuns[Ledger!Max(earlier)].balance
<1> DEFINE counted == Ledger!Counted(checkRuns)
           Earlier(r) == {q \in counted : Ledger!Before(q, r)}
           Newest(rs) == CHOOSE q \in rs : \A p \in rs \ {q} : Ledger!Before(p, q)
           Row(r) == [run |-> r, previous |-> IF Earlier(r) = {} THEN -1
                                              ELSE checkRuns[Newest(Earlier(r))].balance]
           fresh == Ledger!backfillCreditObservations
<1>1. checkRuns \in Seq(RunRows) /\ DOMAIN checkRuns \subseteq {1, 2}
  BY DEF BalanceInv, LedgerTypes, Old
<1>2. \A r \in DOMAIN checkRuns : checkRuns[r] \in RunRows
  BY <1>1
<1>3. counted = {r \in DOMAIN checkRuns : checkRuns[r].balance # -1}
  BY DEF Old, Ledger!Counted, Ledger!None
<1>4. fresh = {Row(r) : r \in counted}
  BY DEF Old, Ledger!backfillCreditObservations, Ledger!None
<1>5. \A q, r \in counted : Ledger!Before(q, r) <=> q < r
  BY <1>1, <1>3 DEF Old, Ledger!Before
<1>6. ASSUME NEW r \in counted
      PROVE  /\ Earlier(r) = {} \/ (r = 2 /\ Earlier(r) = {1})
             /\ Earlier(r) = {} <=> r = 1 \/ checkRuns[1].balance = -1
  <2>1. r = 1 \/ (r = 2 /\ 1 \in DOMAIN checkRuns)
    BY <1>1, <1>3
  <2> QED
    BY <1>1, <1>3, <1>5, <2>1
<1>7. Newest({1}) = 1
  OBVIOUS
<1>8. \A r \in counted : Row(r).run = r /\
        Row(r).previous = IF r = 1 THEN -1 ELSE checkRuns[1].balance
  BY <1>6, <1>7
<1>9. \A r \in counted : Row(r) \in [run : DOMAIN checkRuns, previous : {-1} \cup CheckBalances]
  <2> SUFFICES ASSUME NEW r \in counted
               PROVE  Row(r).previous \in {-1} \cup CheckBalances
    BY <1>3
  <2>1. r = 1 \/ 1 \in DOMAIN checkRuns
    BY <1>1, <1>3
  <2>2. 1 \in DOMAIN checkRuns => checkRuns[1].balance \in {-1} \cup CheckBalances
    <3>1. 1 \in DOMAIN checkRuns => checkRuns[1] \in RunRows
      BY <1>2
    <3> QED
      BY <3>1 DEF RunRows
  <2> HIDE DEF Row
  <2> QED
    BY <1>8, <2>1, <2>2
<1> HIDE DEF Row
<1>10. ASSUME NEW r \in counted
       PROVE  Row(r).previous =
                LET earlier == {q \in 1 .. r - 1 : checkRuns[q].ok}
                IN  IF earlier = {} THEN -1 ELSE checkRuns[Ledger!Max(earlier)].balance
  <2>1. CASE r = 1
    BY <1>8, <2>1
  <2>2. CASE r # 1
    <3>1. r = 2 /\ 1 \in DOMAIN checkRuns /\ checkRuns[1].ok
      BY <1>1, <1>3, <2>2 DEF Old
    <3>2. {q \in 1 .. r - 1 : checkRuns[q].ok} = {1}
      BY <3>1
    <3>3. Ledger!Max({1}) = 1
      BY MaxIs
    <3> QED
      BY <1>8, <3>1, <3>2, <3>3
  <2> QED
    BY <2>1, <2>2
<1> HIDE DEF fresh, counted
<1>11. \A c \in fresh : c.previous =
         LET earlier == {r \in 1 .. c.run - 1 : checkRuns[r].ok}
         IN  IF earlier = {} THEN -1 ELSE checkRuns[Ledger!Max(earlier)].balance
  BY <1>4, <1>8, <1>10
<1>12. \A r \in DOMAIN checkRuns : r \in counted <=> \E c \in fresh : c.run = r
  BY <1>4, <1>8
<1> QED
  BY <1>4, <1>9, <1>11, <1>12 DEF fresh, counted

\* A start gives the runs and the grants of older versions their rows.
LEMMA LedgerStarts ==
  ASSUME BalanceInv, Ledger!Start PROVE BalanceInv'
<1>1. /\ ~up /\ up' = TRUE
      /\ creditRows' = Ledger!backfillCreditObservations
      /\ grantRows' = Ledger!backfillCreditGrantEvents
      /\ UNCHANGED <<checkClock, checkRuns, pending, balances, observed, alerts, endpoints,
                     reported, setBacks>>
  BY DEF Ledger!Start
<1>2. LedgerTypes /\ RowInv
  BY DEF BalanceInv
<1>3. /\ creditRows' \subseteq [run : DOMAIN checkRuns, previous : {-1} \cup CheckBalances]
      /\ Rowed'
      /\ \A c \in creditRows' : c.previous =
           LET earlier == {r \in 1 .. c.run - 1 : checkRuns[r].ok}
           IN  IF earlier = {} THEN -1 ELSE checkRuns[Ledger!Max(earlier)].balance
  <2>1. CASE Old
    BY <1>1, <2>1, OldRows DEF Rowed, Ledger!Counted
  <2>2. CASE Rowed
    <3>1. creditRows' = creditRows
      BY <1>1, <2>2 DEF Rowed, Ledger!backfillCreditObservations, Ledger!Counted
    <3>2. Rowed'
      BY <1>1, <2>2, <3>1 DEF Rowed, Ledger!Counted
    <3> QED
      BY <1>2, <3>1, <3>2 DEF LedgerTypes, RowInv
  <2> QED
    BY <1>2, <2>1, <2>2 DEF RowInv
<1> DEFINE Listing(e) == {r \in DOMAIN checkRuns : checkRuns[r].grant = e}
           Missing == {checkRuns[r].grant : r \in DOMAIN checkRuns}
                        \ ({0} \cup {p.event : p \in grantRows})
<1>4. grantRows' = grantRows \cup {[event |-> e, run |-> Ledger!Min(Listing(e))] : e \in Missing}
  BY <1>1 DEF Ledger!backfillCreditGrantEvents
<1>5. \A r \in DOMAIN checkRuns : checkRuns[r].grant \in Nat
  <2>1. \A r \in DOMAIN checkRuns : checkRuns[r] \in RunRows
    BY <1>2 DEF LedgerTypes
  <2> QED
    BY <2>1 DEF RunRows
<1>6. ASSUME NEW e \in Missing
      PROVE  /\ e \in Nat \ {0} /\ Ledger!Min(Listing(e)) \in DOMAIN checkRuns
             /\ checkRuns[Ledger!Min(Listing(e))].grant = e
             /\ \A r \in DOMAIN checkRuns : checkRuns[r].grant = e => Ledger!Min(Listing(e)) <= r
  <2>1. e \in Nat \ {0} /\ Listing(e) # {}
    BY <1>5
  <2>2. Listing(e) \in SUBSET Nat
    BY <1>2 DEF LedgerTypes
  <2>3. PICK m \in Listing(e) : \A r \in Listing(e) : m <= r
    BY <2>1, <2>2, LeastOf
  <2>4. Ledger!Min(Listing(e)) = m
    BY <2>2, <2>3, MinIs
  <2> QED
    BY <2>1, <2>3, <2>4
<1> DEFINE New(e) == [event |-> e, run |-> Ledger!Min(Listing(e))]
<1>7. \A p \in grantRows' : p \in grantRows \/ (p.event \in Missing /\ p = New(p.event))
  <2>1. ASSUME NEW p \in grantRows', p \notin grantRows
        PROVE  p.event \in Missing /\ p = New(p.event)
    <3>1. PICK e \in Missing : p = New(e)
      BY <1>4, <2>1
    <3>2. p.event = e
      BY <3>1
    <3> QED
      BY <3>1, <3>2
  <2> QED
    BY <2>1
<1>8. \A e \in Missing : New(e) \in grantRows' /\ New(e).event = e
                         /\ New(e).run = Ledger!Min(Listing(e))
  BY <1>4
<1>9. \A p \in grantRows : p.event \notin Missing
  OBVIOUS
<1>10. \A r \in DOMAIN checkRuns : checkRuns[r].grant # 0 =>
         checkRuns[r].grant \in Missing \/ \E p \in grantRows : p.event = checkRuns[r].grant
  OBVIOUS
<1>11. grantRows' \subseteq [event : Nat \ {0}, run : DOMAIN checkRuns]
  <2>1. \A e \in Missing : New(e) \in [event : Nat \ {0}, run : DOMAIN checkRuns]
    BY <1>6
  <2>2. grantRows \subseteq [event : Nat \ {0}, run : DOMAIN checkRuns]
    BY <1>2 DEF LedgerTypes
  <2> HIDE DEF Missing, New
  <2> QED
    BY <1>7, <2>1, <2>2
<1> HIDE DEF Missing, New, Listing
<1>12. \A p, q \in grantRows' : p.event = q.event => p = q
  BY <1>2, <1>7, <1>9 DEF RowInv
<1>13. \A p \in grantRows', r \in DOMAIN checkRuns : checkRuns[r].grant = p.event => p.run <= r
  BY <1>2, <1>6, <1>7, <1>8 DEF RowInv
<1>14. \A r \in DOMAIN checkRuns :
         checkRuns[r].grant # 0 => \E p \in grantRows' : p.event = checkRuns[r].grant
  BY <1>4, <1>8, <1>10
<1>15. LedgerTypes'
  BY <1>1, <1>2, <1>3, <1>11 DEF LedgerTypes
<1>16. RowInv'
  BY <1>1, <1>3, <1>12, <1>13, <1>14 DEF RowInv
<1>17. setBacks' = 0 => TimeInv' /\ TrackInv'
  <2>1. setBacks = 0 => TimeInv'
    BY <1>1 DEF BalanceInv, TimeInv
  <2>2. setBacks = 0 => TrackInv'
    BY <1>1, TrackSame DEF BalanceInv
  <2> QED
    BY <1>1, <2>1, <2>2
<1> QED
  BY <1>1, <1>15, <1>16, <1>17, PollsSame DEF BalanceInv

\* A check ends: its row names the balance of the last successful run.
LEMMA CheckSaved ==
  ASSUME BalanceInv, NEW ok \in BOOLEAN, NEW b \in {-1} \cup CheckBalances,
         NEW to \in 0 .. checkClock + 1, Ledger!saveRun(Ledger!Run(ok, b, 0, checkClock, to))
  PROVE  BalanceInv'
<1> DEFINE r == Ledger!Run(ok, b, 0, checkClock, to)
           n == Len(checkRuns)
           oks == {q \in DOMAIN checkRuns : checkRuns[q].ok}
           before == IF oks = {} THEN -1 ELSE checkRuns[Ledger!Max(oks)].balance
           new == [run |-> n + 1, previous |-> before]
<1>1. LedgerTypes /\ RowInv /\ n \in Nat /\ DOMAIN checkRuns = 1 .. n
  BY DEF BalanceInv, LedgerTypes
<1>2. r.ok = ok /\ r.balance = b /\ r.grant = 0 /\ r.started = checkClock /\ r.ended = to
  BY DEF Ledger!Run
<1>3. r \in RunRows
  BY <1>1 DEF RunRows, Ledger!Run, LedgerTypes
<1>4. Ledger!Previous = before
  BY DEF Ledger!Previous, Ledger!None
<1> HIDE DEF r, before, oks
<1>5. /\ up /\ pending = 0 /\ (ok => b # -1)
      /\ (to = checkClock + 1 /\ setBacks' = setBacks) \/ setBacks' = setBacks + 1
      /\ checkRuns' = Append(checkRuns, r) /\ checkClock' = to /\ pending' = n + 1
      /\ creditRows' = IF ok THEN creditRows \cup {new} ELSE creditRows
      /\ UNCHANGED <<up, grantRows, balances, observed, alerts, endpoints, reported>>
  BY <1>2, <1>4 DEF Ledger!saveRun, Ledger!None, r
<1>6. /\ checkRuns' \in Seq(RunRows) /\ Len(checkRuns') = n + 1
      /\ DOMAIN checkRuns' = 1 .. n + 1 /\ checkRuns'[n + 1] = r
      /\ \A q \in 1 .. n : checkRuns'[q] = checkRuns[q]
  BY <1>1, <1>3, <1>5, AppendProperties DEF LedgerTypes
<1>7. oks # {} => Ledger!Max(oks) \in oks
  <2>1. SUFFICES ASSUME oks # {} PROVE Ledger!Max(oks) \in oks
    OBVIOUS
  <2>2. oks \in SUBSET (0 .. n) /\ oks \in SUBSET Nat
    BY <1>1 DEF oks
  <2>3. PICK m \in oks : \A y \in oks : y <= m
    BY <1>1, <2>1, <2>2, GreatestOf
  <2>4. Ledger!Max(oks) = m
    BY <2>2, <2>3, MaxIs
  <2> QED
    BY <2>4
<1>8. before \in {-1} \cup CheckBalances
  <2>1. oks # {} => checkRuns[Ledger!Max(oks)] \in RunRows
    BY <1>1, <1>7 DEF LedgerTypes, oks
  <2> QED
    BY <2>1 DEF before, RunRows
<1>9. creditRows' \subseteq [run : DOMAIN checkRuns', previous : {-1} \cup CheckBalances]
  <2>1. new \in [run : DOMAIN checkRuns', previous : {-1} \cup CheckBalances]
    BY <1>1, <1>6, <1>8
  <2>2. creditRows \subseteq [run : DOMAIN checkRuns', previous : {-1} \cup CheckBalances]
    BY <1>1, <1>6 DEF LedgerTypes
  <2> QED
    BY <1>5, <2>1, <2>2
<1>10. LedgerTypes'
  <2>1. to \in Nat /\ setBacks' \in Nat
    BY <1>1, <1>5 DEF LedgerTypes
  <2>2. pending' \in 0 .. Len(checkRuns')
    BY <1>1, <1>5, <1>6
  <2>3. grantRows' \subseteq [event : Nat \ {0}, run : DOMAIN checkRuns']
    BY <1>1, <1>5, <1>6 DEF LedgerTypes
  <2>4. \A i \in DOMAIN observed' : observed'[i].run \in DOMAIN checkRuns'
    BY <1>1, <1>5, <1>6 DEF LedgerTypes
  <2> QED
    BY <1>1, <1>5, <1>6, <1>9, <2>1, <2>2, <2>3, <2>4 DEF LedgerTypes
<1>11. RowInv'
  <2>1. Rowed
    BY <1>1, <1>5 DEF RowInv, Old
  <2>2. Ledger!Counted(checkRuns') =
          IF ok THEN Ledger!Counted(checkRuns) \cup {n + 1} ELSE Ledger!Counted(checkRuns)
    BY <1>1, <1>2, <1>5, <1>6 DEF Ledger!Counted, Ledger!None
  <2>3. \A c \in creditRows : c.run \in 1 .. n
    BY <1>1 DEF LedgerTypes
  <2>4. Ledger!Counted(checkRuns) \subseteq 1 .. n
    BY <1>1 DEF Ledger!Counted
  <2>5. new.run = n + 1 /\ new.previous = before
    OBVIOUS
  <2> HIDE DEF new
  <2>6. Rowed'
    <3>1. Ledger!Counted(checkRuns)' = Ledger!Counted(checkRuns')
      OBVIOUS
    <3> QED
      BY <1>1, <1>5, <1>6, <2>1, <2>2, <2>3, <2>4, <2>5 DEF Rowed
  <2>7. ASSUME NEW c \in creditRows'
        PROVE  c.previous =
                 LET earlier == {q \in 1 .. c.run - 1 : checkRuns'[q].ok}
                 IN  IF earlier = {} THEN -1 ELSE checkRuns'[Ledger!Max(earlier)].balance
    <3>1. CASE c \in creditRows
      <4> DEFINE earlier == {q \in 1 .. c.run - 1 : checkRuns[q].ok}
      <4>1. {q \in 1 .. c.run - 1 : checkRuns'[q].ok} = earlier
        BY <1>1, <1>6, <2>3, <3>1
      <4>2. earlier # {} => Ledger!Max(earlier) \in earlier
        <5>1. SUFFICES ASSUME earlier # {} PROVE Ledger!Max(earlier) \in earlier
          OBVIOUS
        <5>2. earlier \in SUBSET (0 .. n) /\ earlier \in SUBSET Nat
          BY <1>1, <2>3, <3>1
        <5> HIDE DEF earlier
        <5>3. PICK m \in earlier : \A y \in earlier : y <= m
          BY <1>1, <5>1, <5>2, GreatestOf
        <5>4. Ledger!Max(earlier) = m
          BY <5>2, <5>3, MaxIs
        <5> QED
          BY <5>4
      <4>3. c.previous = IF earlier = {} THEN -1 ELSE checkRuns[Ledger!Max(earlier)].balance
        BY <1>1, <3>1 DEF RowInv
      <4>4. earlier \subseteq 1 .. n
        BY <1>1, <2>3, <3>1
      <4> HIDE DEF earlier
      <4> QED
        BY <1>6, <4>1, <4>2, <4>3, <4>4
    <3>2. CASE c = new
      <4>1. {q \in 1 .. c.run - 1 : checkRuns'[q].ok} = oks
        BY <1>1, <1>6, <2>5, <3>2 DEF oks
      <4>2. oks # {} => checkRuns'[Ledger!Max(oks)] = checkRuns[Ledger!Max(oks)]
        BY <1>1, <1>6, <1>7 DEF oks
      <4> QED
        BY <2>5, <3>2, <4>1, <4>2 DEF before
    <3> QED
      BY <1>5, <3>1, <3>2
  <2>8. /\ \A p \in grantRows', q \in DOMAIN checkRuns' :
             checkRuns'[q].grant = p.event => p.run <= q
        /\ \A q \in DOMAIN checkRuns' :
             checkRuns'[q].grant # 0 => \E p \in grantRows' : p.event = checkRuns'[q].grant
    <3>1. \A p \in grantRows : p.event # 0
      BY <1>1 DEF LedgerTypes
    <3> QED
      BY <1>1, <1>2, <1>5, <1>6, <3>1 DEF RowInv
  <2> QED
    BY <1>1, <1>5, <2>6, <2>7, <2>8 DEF RowInv
<1>12. ASSUME setBacks' = 0 PROVE TimeInv' /\ TrackInv'
  <2>1. setBacks = 0 /\ to = checkClock + 1
    BY <1>1, <1>5, <1>12 DEF LedgerTypes
  <2>2. TimeInv /\ TrackInv
    BY <2>1 DEF BalanceInv
  <2>3. TrackInv'
    BY <1>1, <1>5, <1>6, <2>2, TrackSame
  <2>4. /\ \A q \in DOMAIN checkRuns' : checkRuns'[q].ended <= checkClock'
        /\ \A p, q \in DOMAIN checkRuns' : p < q => checkRuns'[p].ended < checkRuns'[q].ended
    <3>1. \A q \in 1 .. n : checkRuns[q].ended <= checkClock /\ checkRuns[q].ended \in Nat
      <4>1. \A q \in 1 .. n : checkRuns[q] \in RunRows
        BY <1>1 DEF LedgerTypes
      <4> QED
        BY <1>1, <2>2, <4>1 DEF TimeInv, RunRows
    <3>2. checkClock \in Nat
      BY <1>1 DEF LedgerTypes
    <3>3. \A q \in 1 .. n + 1 : q \in 1 .. n \/ q = n + 1
      BY <1>1
    <3>4. \A q \in DOMAIN checkRuns' : checkRuns'[q].ended <= checkClock'
      BY <1>2, <1>5, <1>6, <2>1, <3>1, <3>2, <3>3
    <3>5. ASSUME NEW p \in 1 .. n + 1, NEW q \in 1 .. n + 1, p < q
          PROVE  checkRuns'[p].ended < checkRuns'[q].ended
      <4>1. p \in 1 .. n
        BY <1>1, <3>5
      <4>2. CASE q \in 1 .. n
        BY <1>1, <1>6, <2>2, <3>5, <4>1, <4>2 DEF TimeInv
      <4>3. CASE q = n + 1
        BY <1>2, <1>6, <2>1, <3>1, <3>2, <4>1, <4>3
      <4> QED
        BY <3>3, <4>2, <4>3
    <3> QED
      BY <1>6, <3>4, <3>5
  <2>5. \A i \in DOMAIN observed' : observed'[i].run < pending'
    BY <1>1, <1>5 DEF LedgerTypes
  <2> QED
    BY <1>5, <2>2, <2>3, <2>4, <2>5 DEF TimeInv
<1> QED
  BY <1>5, <1>10, <1>11, <1>12, PollsSame DEF BalanceInv

\* No poll changes more than the polls and the sum of their deltas, which stays the
\* difference between the last balance and the first.
LEMMA PollSaved ==
  ASSUME BalanceInv, NEW b \in {-1} \cup CheckBalances, Ledger!saveEndpointObservation(b)
  PROVE  BalanceInv'
<1> DEFINE n == Len(endpoints)
           oks == {i \in DOMAIN endpoints : endpoints[i] # -1}
           oks2 == {i \in DOMAIN endpoints' : endpoints'[i] # -1}
<1>1. LedgerTypes /\ n \in Nat /\ DOMAIN endpoints = 1 .. n
  BY DEF BalanceInv, LedgerTypes
<1>2. /\ endpoints' = Append(endpoints, b)
      /\ reported' = reported + Ledger!getEndpointBalanceObservation(b)
      /\ UNCHANGED <<up, checkClock, checkRuns, creditRows, grantRows, pending, balances,
                     observed, alerts, setBacks>>
  BY DEF Ledger!saveEndpointObservation
<1>3. /\ endpoints' \in Seq({-1} \cup CheckBalances) /\ DOMAIN endpoints' = 1 .. n + 1
      /\ endpoints'[n + 1] = b /\ \A i \in 1 .. n : endpoints'[i] = endpoints[i]
  BY <1>1, <1>2, AppendProperties DEF LedgerTypes
<1>4. oks2 = IF b = -1 THEN oks ELSE oks \cup {n + 1}
  BY <1>1, <1>3
<1>5. oks \in SUBSET (0 .. n) /\ oks \in SUBSET Nat /\ oks \subseteq 1 .. n
  BY <1>1
<1>6. \A i \in oks : endpoints[i] \in Int /\ endpoints[i] # -1 /\ endpoints'[i] = endpoints[i]
  <2>1. \A i \in 1 .. n : endpoints[i] \in {-1} \cup CheckBalances
    BY <1>1 DEF LedgerTypes
  <2>2. {-1} \cup CheckBalances \subseteq Int
    BY ObservatoryAssumption
  <2> QED
    BY <1>3, <1>5, <2>1, <2>2
<1>7. b \in Int
  BY ObservatoryAssumption
<1>8. reported \in Int
       /\ reported = IF oks = {} THEN 0
                     ELSE endpoints[Ledger!Max(oks)] - endpoints[Ledger!Min(oks)]
  BY <1>1 DEF BalanceInv, LedgerTypes, Ledger!PollsAgree, Ledger!None
<1>9. Ledger!PreviousPoll = IF oks = {} THEN -1 ELSE endpoints[Ledger!Max(oks)]
  BY DEF Ledger!PreviousPoll, Ledger!None
<1> DEFINE Told == /\ reported' \in Int
                   /\ reported' = IF oks2 = {} THEN 0
                        ELSE endpoints'[Ledger!Max(oks2)] - endpoints'[Ledger!Min(oks2)]
<1> HIDE DEF oks, oks2, n
<1>10. ASSUME oks = {} PROVE Told
  <2>1. reported' = 0
    BY <1>2, <1>8, <1>9, <1>10 DEF Ledger!getEndpointBalanceObservation, Ledger!None
  <2>2. CASE b = -1
    BY <1>4, <1>10, <2>1, <2>2
  <2>3. CASE b # -1
    <3>1. oks2 = {n + 1}
      BY <1>4, <1>10, <2>3
    <3>2. Ledger!Max(oks2) = n + 1 /\ Ledger!Min(oks2) = n + 1
      BY <1>1, <3>1, MaxIs, MinIs
    <3>3. endpoints'[n + 1] - endpoints'[n + 1] = 0
      BY <1>3, <1>7
    <3> QED
      BY <2>1, <3>2, <3>3
  <2> QED
    BY <2>2, <2>3
<1>11. ASSUME oks # {} PROVE Told
  <2>1. PICK m \in oks : \A y \in oks : y <= m
    BY <1>1, <1>5, <1>11, GreatestOf
  <2>2. PICK l \in oks : \A y \in oks : l <= y
    BY <1>5, <1>11, LeastOf
  <2>3. Ledger!Max(oks) = m /\ Ledger!Min(oks) = l
    BY <1>5, <2>1, <2>2, MaxIs, MinIs
  <2>4. endpoints[m] \in Int /\ endpoints[m] # -1 /\ endpoints[l] \in Int
        /\ endpoints'[m] = endpoints[m] /\ endpoints'[l] = endpoints[l]
    BY <1>6, <2>1, <2>2
  <2>5. reported = endpoints[m] - endpoints[l]
    BY <1>8, <1>11, <2>3
  <2>6. Ledger!getEndpointBalanceObservation(b) = IF b = -1 THEN 0 ELSE b - endpoints[m]
    BY <1>9, <1>11, <2>3, <2>4 DEF Ledger!getEndpointBalanceObservation, Ledger!None
  <2>7. CASE b = -1
    <3>1. reported' = endpoints[m] - endpoints[l] /\ oks2 = oks
      BY <1>2, <1>4, <2>4, <2>5, <2>6, <2>7
    <3> QED
      BY <1>11, <2>3, <2>4, <3>1
  <2>8. CASE b # -1
    <3>1. reported' = b - endpoints[l]
      BY <1>2, <1>7, <2>4, <2>5, <2>6, <2>8
    <3>2. oks2 = oks \cup {n + 1}
      BY <1>4, <2>8
    <3>3. oks2 \in SUBSET Nat /\ n + 1 \in oks2 /\ l \in oks2 /\ oks2 # {}
      <4>1. n + 1 \in Nat
        BY <1>1
      <4> QED
        BY <1>5, <2>2, <3>2, <4>1
    <3>4. (\A y \in oks2 : y <= n + 1) /\ \A y \in oks2 : l <= y
      BY <1>1, <1>5, <2>2, <3>2
    <3>5. Ledger!Max(oks2) = n + 1 /\ Ledger!Min(oks2) = l
      BY <3>3, <3>4, MaxIs, MinIs
    <3> QED
      BY <1>3, <1>7, <2>4, <3>1, <3>3, <3>5
  <2> QED
    BY <2>7, <2>8
<1>12. reported' \in Int /\ Ledger!PollsAgree'
  BY <1>10, <1>11 DEF Told, oks2, Ledger!PollsAgree, Ledger!None
<1>13. LedgerTypes'
  BY <1>1, <1>2, <1>3, <1>12 DEF LedgerTypes
<1>14. RowInv'
  <2>1. (Old \/ Rowed)'
    BY <1>2 DEF BalanceInv, RowInv, Old, Rowed, Ledger!Counted
  <2>2. /\ \A p, q \in grantRows' : p.event = q.event => p = q
        /\ \A p \in grantRows', r \in DOMAIN checkRuns' :
             checkRuns'[r].grant = p.event => p.run <= r
        /\ up' => \A r \in DOMAIN checkRuns' :
             checkRuns'[r].grant # 0 => \E p \in grantRows' : p.event = checkRuns'[r].grant
    BY <1>2 DEF BalanceInv, RowInv
  <2>3. \A c \in creditRows' : c.previous =
          LET earlier == {r \in 1 .. c.run - 1 : checkRuns'[r].ok}
          IN  IF earlier = {} THEN -1 ELSE checkRuns'[Ledger!Max(earlier)].balance
    BY <1>2 DEF BalanceInv, RowInv
  <2> QED
    BY <2>1, <2>2, <2>3 DEF RowInv
<1>15. setBacks' = 0 => TimeInv' /\ TrackInv'
  <2>1. setBacks = 0 => TimeInv'
    BY <1>2 DEF BalanceInv, TimeInv
  <2>2. setBacks = 0 => TrackInv'
    BY <1>2, TrackSame DEF BalanceInv
  <2> QED
    BY <1>2, <2>1, <2>2
<1> QED
  BY <1>12, <1>13, <1>14, <1>15 DEF BalanceInv

\* Cardinality is the same operator in the instance.
LEMMA CountIs == \A S : Ledger!Cardinality(S) = Cardinality(S)
BY DEF Ledger!Cardinality, Cardinality

\* One more observation: what it adds to the rises, the falls and the dips.
LEMMA ObservationAdds ==
  ASSUME LedgerTypes, NEW n, n = Len(observed), NEW o \in SeenRows,
         observed' = Append(observed, o)
  PROVE  LET last == observed[n].balance
             rise == n > 0 /\ o.balance > last
             fall == n > 0 /\ last - o.balance >= LargeDrop
             dip == o.balance <= LowBalance /\ ~LowSince(n)
         IN  /\ n \in Nat /\ observed' \in Seq(SeenRows) /\ Len(observed') = n + 1
             /\ observed'[n + 1] = o /\ \A i \in 1 .. n : observed'[i] = observed[i]
             /\ \A i : i \in Ledger!Rose' <=> i \in Ledger!Rose \/ (i = n + 1 /\ rise)
             /\ \A i : i \in Ledger!Fell' <=> i \in Ledger!Fell \/ (i = n + 1 /\ fall)
             /\ \A i \in Ledger!Rose : i \in 2 .. n /\ Ledger!Change(i)' = Ledger!Change(i)
             /\ Ledger!Fell \subseteq 2 .. n
             /\ n > 0 => Ledger!Change(n + 1)' = o.balance - last
             /\ Ledger!Cardinality(Ledger!Dips) \in Nat
             /\ Ledger!Cardinality(Ledger!Dips)' =
                  Ledger!Cardinality(Ledger!Dips) + (IF dip THEN 1 ELSE 0)
             /\ LowSince(Len(observed))' <=>
                  o.balance <= LowBalance \/ (LowSince(n) /\ ~(o.balance > RearmedBalance))
<1>1. observed \in Seq(SeenRows) /\ n \in Nat /\ DOMAIN observed = 1 .. n
  BY DEF LedgerTypes
<1>2. /\ observed' \in Seq(SeenRows) /\ Len(observed') = n + 1 /\ DOMAIN observed' = 1 .. n + 1
      /\ observed'[n + 1] = o /\ \A i \in 1 .. n : observed'[i] = observed[i]
  BY <1>1, AppendProperties
<1>3. /\ \A i \in 1 .. n : observed[i].balance \in Int
      /\ o.balance \in Int /\ LargeDrop \in Int
  <2>1. \A s \in SeenRows : s.balance \in Int
    BY ObservatoryAssumption DEF SeenRows
  <2> QED
    BY <1>1, <2>1, ObservatoryAssumption
<1>4. \A i \in 1 .. n + 1 : i \in 1 .. n \/ i = n + 1
  BY <1>1
<1>5. n + 1 \notin 1 .. n /\ (n + 1) - 1 = n /\ (n > 0 => n \in 1 .. n) /\ (n + 1 > 1 <=> n > 0)
      /\ n + 1 \in 1 .. n + 1 /\ 1 .. n \subseteq 1 .. n + 1
  BY <1>1
<1>6. \A i \in 1 .. n : i > 1 => i - 1 \in 1 .. n /\ Ledger!Change(i)' = Ledger!Change(i)
  <2>1. \A i \in 1 .. n : i > 1 => i - 1 \in 1 .. n
    BY <1>1
  <2> QED
    BY <1>2, <2>1 DEF Ledger!Change
<1>7. n > 0 => Ledger!Change(n + 1)' = o.balance - observed[n].balance
  <2>1. Ledger!Change(n + 1)' = observed'[n + 1].balance - observed'[(n + 1) - 1].balance
    BY DEF Ledger!Change
  <2>2. n > 0 => observed'[(n + 1) - 1] = observed[n]
    BY <1>2, <1>5
  <2> QED
    BY <1>2, <2>1, <2>2
<1>8. Ledger!Rose \subseteq 2 .. n /\ Ledger!Fell \subseteq 2 .. n
  BY <1>1 DEF Ledger!Rose, Ledger!Fell
<1>9. n > 0 => /\ Ledger!Change(n + 1)' > 0 <=> o.balance > observed[n].balance
               /\ -Ledger!Change(n + 1)' >= LargeDrop <=> observed[n].balance - o.balance >= LargeDrop
  <2> SUFFICES ASSUME n > 0
               PROVE  /\ o.balance - observed[n].balance > 0 <=> o.balance > observed[n].balance
                      /\ -(o.balance - observed[n].balance) >= LargeDrop
                           <=> observed[n].balance - o.balance >= LargeDrop
    BY <1>7
  <2>1. observed[n].balance \in Int
    BY <1>3, <1>5
  <2> QED
    BY <1>3, <2>1
<1>10. /\ Ledger!Rose = {i \in 1 .. n : i > 1 /\ Ledger!Change(i) > 0}
       /\ Ledger!Rose' = {i \in 1 .. n + 1 : i > 1 /\ Ledger!Change(i)' > 0}
       /\ Ledger!Fell = {i \in 1 .. n : i > 1 /\ -Ledger!Change(i) >= LargeDrop}
       /\ Ledger!Fell' = {i \in 1 .. n + 1 : i > 1 /\ -Ledger!Change(i)' >= LargeDrop}
  BY <1>1, <1>2 DEF Ledger!Rose, Ledger!Fell
<1>11. \A i : /\ i \in Ledger!Rose' <=> i \in Ledger!Rose
                    \/ (i = n + 1 /\ n > 0 /\ o.balance > observed[n].balance)
              /\ i \in Ledger!Fell' <=> i \in Ledger!Fell
                    \/ (i = n + 1 /\ n > 0 /\ observed[n].balance - o.balance >= LargeDrop)
  <2>1. ASSUME NEW i \in 1 .. n
        PROVE  /\ i \in Ledger!Rose' <=> i \in Ledger!Rose
               /\ i \in Ledger!Fell' <=> i \in Ledger!Fell
    BY <1>5, <1>6, <1>10
  <2>2. /\ n + 1 \in Ledger!Rose' <=> n > 0 /\ o.balance > observed[n].balance
        /\ n + 1 \in Ledger!Fell' <=> n > 0 /\ observed[n].balance - o.balance >= LargeDrop
        /\ n + 1 \notin Ledger!Rose /\ n + 1 \notin Ledger!Fell
    BY <1>5, <1>9, <1>10
  <2>3. \A i : i \notin 1 .. n + 1 => i \notin Ledger!Rose' /\ i \notin Ledger!Fell'
                                       /\ i \notin Ledger!Rose /\ i \notin Ledger!Fell
    BY <1>5, <1>10
  <2>4. \A i \in 1 .. n : i # n + 1
    BY <1>5
  <2> QED
    BY <1>4, <1>5, <2>1, <2>2, <2>3, <2>4
<1> DEFINE dip == o.balance <= LowBalance /\ ~LowSince(n)
<1>12. Ledger!Dips' = IF dip THEN Ledger!Dips \cup {n + 1} ELSE Ledger!Dips
  <2>1. Ledger!Dips \subseteq 1 .. n /\ Ledger!Dips' \subseteq 1 .. n + 1
    BY <1>1, <1>2 DEF Ledger!Dips
  <2>2. ASSUME NEW i \in 1 .. n PROVE i \in Ledger!Dips' <=> i \in Ledger!Dips
    <3>1. \A j \in 1 .. i - 1 : j \in 1 .. n /\ \A k \in j + 1 .. i - 1 : k \in 1 .. n
      BY <1>1
    <3> QED
      BY <1>1, <1>2, <1>5, <3>1 DEF Ledger!Dips
  <2>3. n + 1 \in Ledger!Dips' <=> dip
    <3>1. \A j \in 1 .. n : \A k \in j + 1 .. n : k \in 1 .. n
      BY <1>1
    <3> QED
      BY <1>2, <1>5, <3>1 DEF Ledger!Dips, LowSince
  <2> HIDE DEF dip
  <2>4. \A i : i \in Ledger!Dips' <=> i \in Ledger!Dips \/ (i = n + 1 /\ dip)
    BY <1>4, <1>5, <2>1, <2>2, <2>3
  <2> QED
    BY <2>4
<1>13. /\ Ledger!Cardinality(Ledger!Dips) \in Nat
       /\ Ledger!Cardinality(Ledger!Dips') =
            Ledger!Cardinality(Ledger!Dips) + (IF dip THEN 1 ELSE 0)
  <2>1. Ledger!Dips \subseteq 1 .. n
    BY <1>1 DEF Ledger!Dips
  <2>2. IsFiniteSet(Ledger!Dips)
    <3>1. IsFiniteSet(1 .. n)
      BY <1>1, FS_Interval
    <3> QED
      BY <2>1, <3>1, FS_Subset
  <2>3. Cardinality(Ledger!Dips) \in Nat
    BY <2>2, FS_CardinalityType
  <2>4. n + 1 \notin Ledger!Dips
    BY <1>5, <2>1
  <2>5. Cardinality(Ledger!Dips \cup {n + 1}) = Cardinality(Ledger!Dips) + 1
    BY <2>2, <2>4, FS_AddElement
  <2> HIDE DEF dip
  <2>6. CASE dip
    BY <1>12, <2>3, <2>5, <2>6, CountIs
  <2>7. CASE ~dip
    BY <1>12, <2>3, <2>7, CountIs
  <2> QED
    BY <2>6, <2>7
<1>14. LowSince(Len(observed))' <=>
         o.balance <= LowBalance \/ (LowSince(n) /\ ~(o.balance > RearmedBalance))
  <2>1. LowSince(Len(observed))' <=>
          \E j \in 1 .. n + 1 : /\ observed'[j].balance <= LowBalance
                                /\ \A k \in j + 1 .. n + 1 : ~(observed'[k].balance > RearmedBalance)
    BY <1>2 DEF LowSince
  <2>2. (\A k \in n + 1 + 1 .. n + 1 : ~(observed'[k].balance > RearmedBalance)) /\
        observed'[n + 1].balance = o.balance
    BY <1>1, <1>2
  <2>3. ASSUME NEW j \in 1 .. n
        PROVE  (\A k \in j + 1 .. n + 1 : ~(observed'[k].balance > RearmedBalance)) <=>
               /\ \A k \in j + 1 .. n : ~(observed[k].balance > RearmedBalance)
               /\ ~(o.balance > RearmedBalance)
    <3>1. \A k \in j + 1 .. n : k \in 1 .. n /\ k \in j + 1 .. n + 1
      BY <1>1
    <3>2. n + 1 \in j + 1 .. n + 1
      BY <1>1
    <3>3. \A k \in j + 1 .. n + 1 : k \in j + 1 .. n \/ k = n + 1
      BY <1>1
    <3> QED
      BY <1>2, <3>1, <3>2, <3>3
  <2>4. LowSince(n) <=>
          \E j \in 1 .. n : /\ observed[j].balance <= LowBalance
                            /\ \A k \in j + 1 .. n : ~(observed[k].balance > RearmedBalance)
    BY DEF LowSince
  <2> QED
    BY <1>2, <1>4, <1>5, <2>1, <2>2, <2>3, <2>4
<1> QED
  BY <1>1, <1>2, <1>6, <1>7, <1>8, <1>11, <1>13, <1>14

\* What the recorded run is told with, if the clock was not set back.
LEMMA EventsAre ==
  ASSUME BalanceInv, setBacks = 0, pending # 0, NEW b \in CheckBalances,
         NEW n, n = Len(observed), NEW to, to = checkRuns[pending].ended,
         LET transition == Ledger!evaluateAgentRouterBalanceTransition(balances, b, to)
         IN  /\ balances' = transition.next
             /\ alerts' = alerts \cup transition.events \cup Ledger!Grant(b, to)
  PROVE  LET last == observed[n].balance
             rise == n > 0 /\ b > last
             fall == n > 0 /\ last - b >= LargeDrop
             low == b <= LowBalance \/ (balances.low /\ b <= RearmedBalance)
         IN  /\ balances' = [at |-> to, balance |-> b, low |-> low,
                  epoch |-> IF balances.low /\ b > RearmedBalance THEN balances.epoch + 1
                                                                  ELSE balances.epoch]
             /\ \A e : e \in Ledger!Of("grant")' <=>
                         e \in Ledger!Of("grant") \/ (rise /\ e = <<"grant", to, b - last>>)
             /\ \A e : e \in Ledger!Of("drop")' <=>
                         e \in Ledger!Of("drop") \/ (fall /\ e = <<"drop", to, last, b>>)
             /\ \A e : e \in Ledger!Of("low")' <=>
                         e \in Ledger!Of("low") \/
                           (low /\ ~balances.low /\ e = <<"low", balances.epoch>>)
             /\ \A i \in 1 .. n : checkRuns[observed[i].run].ended < to
<1>1. LedgerTypes /\ TimeInv /\ TrackInv /\ n \in Nat /\ DOMAIN observed = 1 .. n
  BY DEF BalanceInv, LedgerTypes
<1>2. pending \in DOMAIN checkRuns /\ \A r \in DOMAIN checkRuns : checkRuns[r].ended \in Nat
  <2>1. \A r \in DOMAIN checkRuns : checkRuns[r] \in RunRows
    BY <1>1 DEF LedgerTypes
  <2> QED
    BY <1>1, <2>1 DEF LedgerTypes, RunRows
<1>3. \A i \in 1 .. n : checkRuns[observed[i].run].ended < to
  BY <1>1, <1>2 DEF TimeInv, LedgerTypes
<1>4. /\ n = 0 => balances.at = -1 /\ balances.balance = -1
      /\ n > 0 => /\ balances.at = checkRuns[observed[n].run].ended
                  /\ balances.balance = observed[n].balance /\ observed[n].balance # -1
                  /\ balances.at \in Nat
  <2>1. CASE n = 0
    <3>1. observed = <<>>
      BY <1>1, <2>1, EmptySeq DEF LedgerTypes
    <3> QED
      BY <1>1, <2>1, <3>1 DEF TrackInv, Ledger!Untracked, Ledger!None
  <2>2. CASE n > 0
    <3>1. observed # <<>> /\ n \in DOMAIN observed
      BY <1>1, <2>2
    <3>2. observed[n] \in SeenRows
      BY <1>1, <3>1 DEF LedgerTypes
    <3>3. observed[n].balance # -1
      BY <3>2, ObservatoryAssumption DEF SeenRows
    <3> QED
      BY <1>1, <1>2, <2>2, <3>1, <3>3 DEF TrackInv, Ledger!Moment, LedgerTypes
  <2> QED
    BY <1>1, <2>1, <2>2
<1>5. ~(balances.at # -1 /\ to <= balances.at)
  <2>1. CASE n = 0
    BY <1>4, <2>1
  <2>2. CASE n > 0
    <3>1. balances.at < to /\ balances.at \in Nat /\ to \in Nat
      BY <1>1, <1>2, <1>3, <1>4, <2>2
    <3> QED
      BY <3>1
  <2> QED
    BY <1>1, <2>1, <2>2
<1> DEFINE last == observed[n].balance
           low == b <= LowBalance \/ (balances.low /\ b <= RearmedBalance)
           next == [at |-> to, balance |-> b,
                    epoch |-> IF balances.low /\ b > RearmedBalance THEN balances.epoch + 1
                                                                    ELSE balances.epoch,
                    low |-> low]
           rise == n > 0 /\ b > last
           fall == n > 0 /\ last - b >= LargeDrop
           G == IF rise THEN {<<"grant", to, b - last>>} ELSE {}
           D == IF fall THEN {<<"drop", to, last, b>>} ELSE {}
           L == IF low /\ ~balances.low THEN {<<"low", balances.epoch>>} ELSE {}
<1>6. Ledger!NextTracker(balances, b, to) = next
  BY DEF Ledger!NextTracker, Ledger!NextEpoch
<1>7. Ledger!Grant(b, to) = G
  <2>1. CASE n = 0
    BY <1>4, <2>1 DEF Ledger!Grant, Ledger!None
  <2>2. CASE n > 0
    BY <1>4, <2>2 DEF Ledger!Grant, Ledger!None
  <2> QED
    BY <1>1, <2>1, <2>2
<1>8. /\ (balances.balance # -1 /\ balances.balance - b >= LargeDrop) <=> fall
      /\ fall => balances.balance = last
  BY <1>1, <1>4
<1>9. next.low = low /\ (low /\ ~balances.low => next.epoch = balances.epoch)
  OBVIOUS
<1> DEFINE t == Ledger!evaluateAgentRouterBalanceTransition(balances, b, to)
<1>10. t.next = next /\ t.events = D \cup L
  <2>1. t = [next |-> next,
             events |-> (IF balances.balance # -1 /\ balances.balance - b >= LargeDrop
                         THEN {<<"drop", to, balances.balance, b>>} ELSE {})
                        \cup (IF next.low /\ ~balances.low THEN {<<"low", next.epoch>>} ELSE {})]
    BY <1>5, <1>6 DEF Ledger!evaluateAgentRouterBalanceTransition, Ledger!None
  <2> HIDE DEF next, t, fall, low, last
  <2> QED
    BY <1>8, <1>9, <2>1
<1>11. balances' = next /\ alerts' = alerts \cup D \cup L \cup G
  BY <1>7, <1>10
<1>12. /\ \A e \in G : e[1] = "grant"
       /\ \A e \in D : e[1] = "drop"
       /\ \A e \in L : e[1] = "low"
  OBVIOUS
<1>13. /\ \A e : e \in G <=> rise /\ e = <<"grant", to, b - last>>
       /\ \A e : e \in D <=> fall /\ e = <<"drop", to, last, b>>
       /\ \A e : e \in L <=> low /\ ~balances.low /\ e = <<"low", balances.epoch>>
  OBVIOUS
<1> HIDE DEF G, D, L, low, rise, fall, last, next
<1>14. /\ \A e : e \in Ledger!Of("grant")' <=> e \in Ledger!Of("grant") \/ e \in G
       /\ \A e : e \in Ledger!Of("drop")' <=> e \in Ledger!Of("drop") \/ e \in D
       /\ \A e : e \in Ledger!Of("low")' <=> e \in Ledger!Of("low") \/ e \in L
  BY <1>11, <1>12 DEF Ledger!Of
<1> QED
  BY <1>3, <1>11, <1>13, <1>14 DEF low, rise, fall, last, next

\* A run is recorded, or lost.
LEMMA RunRecorded ==
  ASSUME BalanceInv, Ledger!recordAgentRouterRun PROVE BalanceInv'
<1> DEFINE b == checkRuns[pending].balance
           to == checkRuns[pending].ended
           t == Ledger!evaluateAgentRouterBalanceTransition(balances, b, to)
<1>1. /\ pending # 0 /\ pending' = 0
      /\ UNCHANGED <<up, checkClock, checkRuns, creditRows, grantRows, endpoints, reported,
                     setBacks>>
      /\ \/ UNCHANGED <<balances, observed, alerts>>
         \/ /\ b # -1 /\ balances' = t.next /\ alerts' = alerts \cup t.events \cup Ledger!Grant(b, to)
            /\ observed' = Append(observed, [run |-> pending, balance |-> b,
                                             previous |-> balances.balance])
  BY DEF Ledger!recordAgentRouterRun, Ledger!Observation, Ledger!None
<1>2. LedgerTypes /\ RowInv
  BY DEF BalanceInv
<1>3. CASE UNCHANGED <<balances, observed, alerts>>
  BY <1>1, <1>2, <1>3, LedgerSame DEF LedgerTypes
<1>4. CASE /\ b # -1 /\ balances' = t.next
           /\ alerts' = alerts \cup t.events \cup Ledger!Grant(b, to)
           /\ observed' = Append(observed, [run |-> pending, balance |-> b,
                                            previous |-> balances.balance])
  <2>1. pending \in DOMAIN checkRuns /\ pending \in Nat
    BY <1>1, <1>2 DEF LedgerTypes
  <2>2. checkRuns[pending] \in RunRows
    BY <1>2, <2>1 DEF LedgerTypes
  <2>a. b \in CheckBalances /\ to \in Nat
    BY <1>4, <2>2 DEF RunRows
  <2>b. PICK c \in CheckBalances : c = b
    BY <2>a
  <2>c. PICK when \in Nat : when = to
    BY <2>a
  <2>d. PICK m, n : m = pending /\ n = Len(observed)
    OBVIOUS
  <2>3. c = b /\ m = pending /\ when = to /\ n = Len(observed)
    BY <2>b, <2>c, <2>d
  <2>4. PICK o : o = [run |-> m, balance |-> c, previous |-> balances.balance]
    OBVIOUS
  <2>5. o \in SeenRows /\ o.run = m /\ o.balance = c
    BY <1>2, <2>1, <2>3, <2>4 DEF LedgerTypes, SeenRows
  <2>6. observed' = Append(observed, o)
    BY <1>4, <2>3, <2>4
  <2>7. /\ n \in Nat /\ observed' \in Seq(SeenRows) /\ Len(observed') = n + 1
        /\ observed'[n + 1] = o /\ \A i \in 1 .. n : observed'[i] = observed[i]
        /\ DOMAIN observed = 1 .. n /\ DOMAIN observed' = 1 .. n + 1
    BY <1>2, <2>3, <2>5, <2>6, ObservationAdds DEF LedgerTypes
  <2>8. \A i \in 1 .. n + 1 : i \in 1 .. n \/ i = n + 1
    BY <2>7
  <2> HIDE DEF b, to
  <2>9. balances' \in [at : {-1} \cup Nat, balance : {-1} \cup CheckBalances,
                       low : BOOLEAN, epoch : Nat]
    <3>1. balances \in [at : {-1} \cup Nat, balance : {-1} \cup CheckBalances,
                        low : BOOLEAN, epoch : Nat]
      BY <1>2 DEF LedgerTypes
    <3>2. balances' = balances \/ balances' = Ledger!NextTracker(balances, c, when)
      BY <1>4, <2>3 DEF Ledger!evaluateAgentRouterBalanceTransition
    <3>3. Ledger!NextTracker(balances, c, when) \in
            [at : {-1} \cup Nat, balance : {-1} \cup CheckBalances, low : BOOLEAN, epoch : Nat]
      <4>1. Ledger!NextEpoch(balances, c) \in Nat
        BY <3>1 DEF Ledger!NextEpoch
      <4> QED
        BY <4>1 DEF Ledger!NextTracker
    <3> QED
      BY <3>1, <3>2, <3>3
  <2>10. \A i \in DOMAIN observed' : observed'[i].run \in DOMAIN checkRuns
    BY <1>2, <2>1, <2>3, <2>5, <2>7, <2>8 DEF LedgerTypes
  <2>11. LedgerTypes'
    <3>1. pending' \in 0 .. Len(checkRuns')
      BY <1>1, <1>2 DEF LedgerTypes
    <3> QED
      BY <1>1, <1>2, <2>7, <2>9, <2>10, <3>1 DEF LedgerTypes
  <2>12. RowInv'
    <3>1. (Old \/ Rowed)'
      BY <1>1, <1>2 DEF RowInv, Old, Rowed, Ledger!Counted
    <3>2. /\ \A p, q \in grantRows' : p.event = q.event => p = q
          /\ \A p \in grantRows', r \in DOMAIN checkRuns' :
               checkRuns'[r].grant = p.event => p.run <= r
          /\ up' => \A r \in DOMAIN checkRuns' :
               checkRuns'[r].grant # 0 => \E p \in grantRows' : p.event = checkRuns'[r].grant
      BY <1>1, <1>2 DEF RowInv
    <3>3. \A k \in creditRows' : k.previous =
            LET earlier == {r \in 1 .. k.run - 1 : checkRuns'[r].ok}
            IN  IF earlier = {} THEN -1 ELSE checkRuns'[Ledger!Max(earlier)].balance
      BY <1>1, <1>2 DEF RowInv
    <3> QED
      BY <3>1, <3>2, <3>3 DEF RowInv
  <2>13. ASSUME setBacks = 0 PROVE TimeInv' /\ TrackInv'
    <3>1. TimeInv /\ TrackInv
      BY <2>13 DEF BalanceInv
    <3>2. TimeInv'
      <4>1. \A i \in 1 .. n : observed[i].run < m
        BY <1>1, <2>3, <2>7, <3>1 DEF TimeInv
      <4>2. \A i, j \in 1 .. n + 1 : i < j => observed'[i].run < observed'[j].run
        <5> SUFFICES ASSUME NEW i \in 1 .. n + 1, NEW j \in 1 .. n + 1, i < j
                     PROVE  observed'[i].run < observed'[j].run
          OBVIOUS
        <5>1. i \in 1 .. n
          BY <2>7
        <5>2. CASE j \in 1 .. n
          BY <2>7, <3>1, <5>1, <5>2 DEF TimeInv
        <5>3. CASE j = n + 1
          BY <2>5, <2>7, <4>1, <5>1, <5>3
        <5> QED
          BY <2>8, <5>2, <5>3
      <4> QED
        BY <1>1, <2>7, <3>1, <4>2 DEF TimeInv
    <3>a. PICK last, count, nth : /\ last = observed[n].balance /\ nth = balances.epoch
                                  /\ count = Ledger!Cardinality(Ledger!Dips)
      OBVIOUS
    <3>b. PICK rise \in BOOLEAN, fall \in BOOLEAN :
            /\ rise <=> n > 0 /\ c > last
            /\ fall <=> n > 0 /\ last - c >= LargeDrop
      OBVIOUS
    <3>c. PICK dip \in BOOLEAN, low \in BOOLEAN, was \in BOOLEAN :
            /\ dip <=> c <= LowBalance /\ ~LowSince(n)
            /\ low <=> c <= LowBalance \/ (balances.low /\ c <= RearmedBalance)
            /\ was <=> balances.low
      OBVIOUS
    <3>d. low = (c <= LowBalance \/ (balances.low /\ c <= RearmedBalance))
      BY <3>c
    <3>4. /\ \A i : i \in Ledger!Rose' <=> i \in Ledger!Rose \/ (i = n + 1 /\ rise)
          /\ \A i : i \in Ledger!Fell' <=> i \in Ledger!Fell \/ (i = n + 1 /\ fall)
          /\ \A i \in Ledger!Rose : i \in 2 .. n /\ Ledger!Change(i)' = Ledger!Change(i)
          /\ Ledger!Fell \subseteq 2 .. n
          /\ n > 0 => Ledger!Change(n + 1)' = c - last
          /\ count \in Nat
          /\ Ledger!Cardinality(Ledger!Dips)' = count + (IF dip THEN 1 ELSE 0)
          /\ LowSince(Len(observed))' <=>
               c <= LowBalance \/ (LowSince(n) /\ ~(c > RearmedBalance))
      BY <1>2, <2>3, <2>5, <2>6, <3>a, <3>b, <3>c, ObservationAdds
    <3>5. /\ balances' = [at |-> when, balance |-> c, low |-> low,
                epoch |-> IF was /\ c > RearmedBalance THEN nth + 1 ELSE nth]
          /\ \A e : e \in Ledger!Of("grant")' <=>
                      e \in Ledger!Of("grant") \/ (rise /\ e = <<"grant", when, c - last>>)
          /\ \A e : e \in Ledger!Of("drop")' <=>
                      e \in Ledger!Of("drop") \/ (fall /\ e = <<"drop", when, last, c>>)
          /\ \A e : e \in Ledger!Of("low")' <=>
                      e \in Ledger!Of("low") \/ (low /\ ~was /\ e = <<"low", nth>>)
      <4>1. to = when /\ b = c /\ t = Ledger!evaluateAgentRouterBalanceTransition(balances, c, when)
        BY <2>3
      <4> QED
        BY <1>1, <1>4, <2>3, <2>13, <3>a, <3>b, <3>c, <3>d, <4>1, EventsAre DEF to
    <3>6. /\ \A i \in 1 .. n : Ledger!Moment(i)' = Ledger!Moment(i)
          /\ Ledger!Moment(n + 1)' = when
      BY <1>1, <2>3, <2>5, <2>7 DEF Ledger!Moment, to
    <3>7. was <=> LowSince(n)
      BY <2>3, <3>1, <3>c DEF TrackInv
    <3>8. c \in Int /\ LowBalance \in Int /\ RearmedBalance \in Int
          /\ LowBalance <= RearmedBalance /\ nth \in Nat
          /\ nth = count + (IF was THEN 0 ELSE 1)
      BY <1>2, <3>1, <3>a, <3>c, ObservatoryAssumption DEF LedgerTypes, TrackInv
    <3>9. /\ low <=> LowSince(Len(observed))'
          /\ (IF was /\ c > RearmedBalance THEN nth + 1 ELSE nth)
               = count + (IF dip THEN 1 ELSE 0) + (IF low THEN 0 ELSE 1)
          /\ (low /\ ~was) <=> dip
          /\ dip => nth = count + 1
      <4>1. low <=> c <= LowBalance \/ (was /\ c <= RearmedBalance)
        BY <3>c
      <4>2. dip <=> c <= LowBalance /\ ~was
        BY <3>c, <3>7
      <4>3. LowSince(Len(observed))' <=> c <= LowBalance \/ (was /\ ~(c > RearmedBalance))
        BY <3>4, <3>7
      <4>4. count \in Nat
        BY <3>4
      <4>5. CASE was
        BY <3>8, <4>1, <4>2, <4>3, <4>4, <4>5
      <4>6. CASE ~was
        BY <3>8, <4>1, <4>2, <4>3, <4>4, <4>6
      <4> QED
        BY <4>5, <4>6
    <3>10. IF observed' = <<>> THEN balances' = Ledger!Untracked'
           ELSE /\ balances'.at = Ledger!Moment(Len(observed))'
                /\ balances'.balance = observed'[Len(observed')].balance
      <4>1. observed' # <<>>
        BY <2>7
      <4>2. Ledger!Moment(Len(observed))' = when
        BY <1>1, <2>3, <2>5, <2>7 DEF Ledger!Moment, to
      <4> QED
        BY <2>5, <2>7, <3>5, <4>1, <4>2
    <3>11. /\ balances'.low <=> LowSince(Len(observed))'
           /\ balances'.epoch = Ledger!Cardinality(Ledger!Dips)'
                                + (IF balances'.low THEN 0 ELSE 1)
      BY <3>4, <3>5, <3>9
    <3>12. \A e : e \in Ledger!Of("grant")' <=>
                    \E i \in Ledger!Rose' : e = <<"grant", Ledger!Moment(i)', Ledger!Change(i)'>>
      <4>1. \A e : e \in Ledger!Of("grant") <=>
                     \E i \in Ledger!Rose : e = <<"grant", Ledger!Moment(i), Ledger!Change(i)>>
        BY <3>1 DEF TrackInv
      <4>2. \A i \in Ledger!Rose : /\ Ledger!Moment(i)' = Ledger!Moment(i)
                                   /\ Ledger!Change(i)' = Ledger!Change(i)
        BY <2>7, <3>4, <3>6
      <4> QED
        BY <2>7, <3>b, <3>4, <3>5, <3>6, <4>1, <4>2
    <3>13. \A e : e \in Ledger!Of("drop")' <=>
                    \E i \in Ledger!Fell' : e = <<"drop", Ledger!Moment(i)', observed'[i - 1].balance,
                                                 observed'[i].balance>>
      <4>1. \A e : e \in Ledger!Of("drop") <=>
                     \E i \in Ledger!Fell : e = <<"drop", Ledger!Moment(i), observed[i - 1].balance,
                                                 observed[i].balance>>
        BY <3>1 DEF TrackInv
      <4>2. \A i \in Ledger!Fell : i \in 1 .. n /\ i - 1 \in 1 .. n
        BY <2>7, <3>4
      <4>3. fall => observed'[(n + 1) - 1].balance = last /\ observed'[n + 1].balance = c
        <5>1. (n + 1) - 1 = n /\ (fall => n \in 1 .. n)
          BY <2>7, <3>b
        <5> QED
          BY <2>5, <2>7, <3>a, <5>1
      <4> QED
        BY <2>7, <3>4, <3>5, <3>6, <4>1, <4>2, <4>3
    <3>14. \A e : e \in Ledger!Of("low")' <=>
                    \E i \in 1 .. Ledger!Cardinality(Ledger!Dips)' : e = <<"low", i>>
      <4>1. \A e : e \in Ledger!Of("low") <=> \E i \in 1 .. count : e = <<"low", i>>
        BY <3>1, <3>a DEF TrackInv
      <4>2. CASE dip
        <5>1. \A i : i \in 1 .. count + 1 <=> i \in 1 .. count \/ i = count + 1
          BY <3>4
        <5>2. Ledger!Cardinality(Ledger!Dips)' = count + 1
          BY <3>4, <4>2
        <5> QED
          BY <3>5, <3>9, <4>1, <4>2, <5>1, <5>2
      <4>3. CASE ~dip
        <5>1. Ledger!Cardinality(Ledger!Dips)' = count
          BY <3>4, <4>3
        <5> QED
          BY <3>5, <3>9, <4>1, <4>3, <5>1
      <4> QED
        BY <4>2, <4>3
    <3> QED
      BY <3>2, <3>10, <3>11, <3>12, <3>13, <3>14 DEF TrackInv
  <2> QED
    BY <1>1, <2>11, <2>12, <2>13, PollsSame DEF BalanceInv
<1> QED
  BY <1>1, <1>3, <1>4

\* Of the balances of an account, what the observatory tells is what its observations
\* show, and every run, grant and poll counts once (storage.ts, coordinator.ts).
THEOREM LedgerAgreesHolds == Spec => []LedgerAgrees
<1>1. Init => BalanceInv
  <2> SUFFICES ASSUME Ledger!Init PROVE BalanceInv
    BY DEF Init
  <2>1. /\ up = FALSE /\ creditRows = {} /\ grantRows = {} /\ pending = 0
        /\ balances = Ledger!Untracked /\ observed = <<>> /\ alerts = {}
        /\ endpoints = <<>> /\ reported = 0 /\ setBacks = 0 /\ checkClock = Len(checkRuns)
    BY DEF Ledger!Init
  <2>2. PICK n \in 0 .. 2, b \in {-1} \cup CheckBalances, c \in CheckBalances, g \in 0 .. 1 :
          checkRuns = SubSeq(<<Ledger!Run(TRUE, b, g, 0, 0), Ledger!Run(TRUE, c, g, 1, 1)>>, 1, n)
    BY DEF Ledger!Init, Ledger!None
  <2> DEFINE first == Ledger!Run(TRUE, b, g, 0, 0)
             second == Ledger!Run(TRUE, c, g, 1, 1)
             two == <<first, second>>
  <2>3. two[1] \in RunRows /\ two[2] \in RunRows
        /\ two[1].ok /\ two[1].started = 0 /\ two[1].ended = 0
        /\ two[2].ok /\ two[2].started = 1 /\ two[2].ended = 1
    BY DEF Ledger!Run, RunRows
  <2>4. two \in Seq(RunRows) /\ Len(two) = 2
    <3>1. first \in RunRows /\ second \in RunRows
      BY <2>3
    <3> HIDE DEF first, second
    <3> QED
      BY <3>1
  <2> HIDE DEF two
  <2>5. /\ checkRuns \in Seq(RunRows) /\ Len(checkRuns) = n /\ DOMAIN checkRuns = 1 .. n
        /\ \A r \in 1 .. n : checkRuns[r] = two[r]
    <3>1. checkRuns = SubSeq(two, 1, n)
      BY <2>2 DEF two
    <3>2. CASE n = 0
      BY <2>4, <3>1, <3>2, SubSeqProperties
    <3>3. CASE n # 0
      <4>1. 1 \in 1 .. Len(two) + 1 /\ n \in 1 - 1 .. Len(two) /\ n - 1 + 1 = n
        BY <2>4, <3>3
      <4> QED
        BY <2>4, <3>1, <4>1, SubSeqProperties
    <3> QED
      BY <3>2, <3>3
  <2>6. \A r \in 1 .. n : r \in {1, 2} /\ checkRuns[r].ok
          /\ checkRuns[r].started = r - 1 /\ checkRuns[r].ended = r - 1
    BY <2>3, <2>5
  <2>7. Len(observed) = 0 /\ DOMAIN observed = {} /\ DOMAIN endpoints = {}
        /\ observed \in Seq(SeenRows) /\ endpoints \in Seq({-1} \cup CheckBalances)
    BY <2>1, EmptySeq
  <2>8. LedgerTypes
    <3>1. balances \in [at : {-1} \cup Nat, balance : {-1} \cup CheckBalances,
                        low : BOOLEAN, epoch : Nat]
      BY <2>1 DEF Ledger!Untracked, Ledger!None
    <3>2. Len(checkRuns) \in Nat /\ pending \in 0 .. Len(checkRuns)
      BY <2>1, <2>5
    <3>7. up \in BOOLEAN
      BY <2>1
    <3>3. checkClock \in Nat /\ setBacks \in Nat /\ reported \in Int
      <4>1. checkClock = Len(checkRuns) /\ setBacks = 0 /\ reported = 0
        BY <2>1
      <4> QED
        BY <3>2, <4>1
    <3>4. /\ creditRows \subseteq [run : DOMAIN checkRuns, previous : {-1} \cup CheckBalances]
          /\ grantRows \subseteq [event : Nat \ {0}, run : DOMAIN checkRuns]
      BY <2>1
    <3>6. checkRuns \in Seq(RunRows)
      BY <2>5
    <3>5. /\ observed \in Seq(SeenRows) /\ endpoints \in Seq({-1} \cup CheckBalances)
          /\ \A i \in DOMAIN observed : observed[i].run \in DOMAIN checkRuns
      BY <2>7
    <3> QED
      BY <3>1, <3>2, <3>3, <3>4, <3>5, <3>6, <3>7 DEF LedgerTypes
  <2>9. RowInv
    BY <2>1, <2>5, <2>6 DEF RowInv, Old
  <2>10. Ledger!PollsAgree
    BY <2>1, <2>7 DEF Ledger!PollsAgree
  <2>11. TimeInv
    BY <2>1, <2>5, <2>6, <2>7 DEF TimeInv
  <2>12. TrackInv
    <3>1. Ledger!Dips = {} /\ Ledger!Rose = {} /\ Ledger!Fell = {}
      BY <2>7 DEF Ledger!Dips, Ledger!Rose, Ledger!Fell
    <3>2. Ledger!Cardinality(Ledger!Dips) = 0
      BY <3>1, CountIs, FS_EmptySet
    <3>3. ~LowSince(Len(observed))
      BY <2>7 DEF LowSince
    <3>4. \A type : Ledger!Of(type) = {}
      BY <2>1 DEF Ledger!Of
    <3> QED
      BY <2>1, <3>1, <3>2, <3>3, <3>4 DEF TrackInv, Ledger!Untracked
  <2> QED
    BY <2>8, <2>9, <2>10, <2>11, <2>12 DEF BalanceInv
<1>2. BalanceInv /\ [Next]_vars => BalanceInv'
  <2> SUFFICES ASSUME BalanceInv, [Ledger!Next]_(Ledger!vars) PROVE BalanceInv'
    BY DEF Next, vars, Only, ledgerVars, Ledger!vars
  <2>1. CASE UNCHANGED Ledger!vars
    BY <2>1, LedgerSame DEF Ledger!vars, BalanceInv, LedgerTypes
  <2>2. CASE Ledger!Start
    BY <2>2, LedgerStarts
  <2>3. CASE Ledger!Crash
    BY <2>3, LedgerEnds
  <2>4. CASE Ledger!SetBack
    BY <2>4, ClockSetBack
  <2>5. CASE Ledger!recordAgentRouterRun
    BY <2>5, RunRecorded
  <2>6. ASSUME NEW ok \in BOOLEAN, NEW b \in {-1} \cup CheckBalances,
               NEW to \in 0 .. checkClock + 1,
               Ledger!saveRun(Ledger!Run(ok, b, 0, checkClock, to))
        PROVE  BalanceInv'
    BY <2>6, CheckSaved
  <2>7. ASSUME NEW b \in {-1} \cup CheckBalances, Ledger!saveEndpointObservation(b)
        PROVE  BalanceInv'
    BY <2>7, PollSaved
  <2> QED
    BY <2>1, <2>2, <2>3, <2>4, <2>5, <2>6, <2>7
       DEF Ledger!Next, Ledger!None, Ledger!pollAccountEndpoints
<1>3. BalanceInv => LedgerAgrees
  <2> SUFFICES ASSUME BalanceInv PROVE Ledger!LedgerAgrees
    BY DEF LedgerAgrees
  <2>1. LedgerTypes /\ RowInv
    BY DEF BalanceInv
  <2>2. ASSUME setBacks = 0 PROVE Ledger!AlertsAgree
    <3>1. TimeInv /\ TrackInv
      BY <2>2 DEF BalanceInv
    <3>2. Ledger!Of("grant") =
            {<<"grant", Ledger!Moment(i), Ledger!Change(i)>> : i \in Ledger!Rose}
      BY <3>1 DEF TrackInv
    <3>3. Ledger!Of("drop") =
            {<<"drop", Ledger!Moment(i), observed[i - 1].balance, observed[i].balance>> :
              i \in Ledger!Fell}
      BY <3>1 DEF TrackInv
    <3>4. Ledger!Of("low") = {<<"low", n>> : n \in 1 .. Ledger!Cardinality(Ledger!Dips)}
      BY <3>1 DEF TrackInv
    <3>5. ASSUME NEW i \in DOMAIN observed, NEW j \in DOMAIN observed,
                 Ledger!Moment(i) = Ledger!Moment(j)
          PROVE  i = j
      <4>1. \A p, q \in DOMAIN observed : p < q => Ledger!Moment(p) < Ledger!Moment(q)
        BY <2>1, <3>1 DEF TimeInv, LedgerTypes, Ledger!Moment
      <4>2. \A p \in DOMAIN observed : p \in Nat /\ Ledger!Moment(p) \in Nat
        <5>1. \A r \in DOMAIN checkRuns : checkRuns[r] \in RunRows
          BY <2>1 DEF LedgerTypes
        <5>2. \A r \in DOMAIN checkRuns : checkRuns[r].ended \in Nat
          BY <5>1 DEF RunRows
        <5> QED
          BY <2>1, <5>2 DEF LedgerTypes, Ledger!Moment
      <4> QED
        BY <3>5, <4>1, <4>2
    <3> QED
      BY <3>2, <3>3, <3>4, <3>5 DEF Ledger!AlertsAgree
  <2>3. Ledger!CreditsAgree
    BY <2>1 DEF Ledger!CreditsAgree, RowInv, Ledger!None
  <2>4. ASSUME up PROVE Ledger!RowsComplete
    <3>1. Rowed
      BY <2>1, <2>4 DEF RowInv, Old
    <3>2. ASSUME NEW r \in DOMAIN checkRuns, checkRuns[r].grant # 0
          PROVE  \E p \in grantRows : /\ p.run <= r
                                      /\ \A q \in grantRows : q.event = checkRuns[r].grant <=> q = p
      <4>1. PICK p \in grantRows : p.event = checkRuns[r].grant
        BY <2>1, <2>4, <3>2 DEF RowInv
      <4>2. p.run <= r /\ \A q \in grantRows : q.event = checkRuns[r].grant => q = p
        BY <2>1, <4>1 DEF RowInv
      <4> QED
        BY <4>1, <4>2
    <3> QED
      BY <3>1, <3>2 DEF Ledger!RowsComplete, Rowed
  <2> QED
    BY <2>2, <2>3, <2>4 DEF Ledger!LedgerAgrees, BalanceInv
<1> QED
  BY <1>1, <1>2, <1>3, PTL DEF Spec
=============================================================================
