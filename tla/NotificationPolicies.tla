------------------------ MODULE NotificationPolicies ------------------------
(***************************************************************************)
(* Which events reach Telegram: the rules of                               *)
(* src/observatory/policies.ts, the dashboard's writes of them             *)
(* (src/observatory/api.ts) and the rows the store gives back.  A rule may *)
(* leave fields unset, and a null field goes back to a default; what is    *)
(* stored is the whole policy that the rule alone resolves to.  Of the     *)
(* nine scopes three stand for the order, of the fields those that depend  *)
(* on each other (quiet hours) or decide alone (minSeverity).              *)
(***************************************************************************)
EXTENDS Integers, Sequences

VARIABLES
    rules            \* observatory_notification_policies: the row of each target

vars == <<rules>>

\* A part of POLICY_SCOPE_PRECEDENCE: one target of each scope.
Scopes == <<"global", "event", "identity">>
Targets == {Scopes[i] : i \in DOMAIN Scopes}

SEVERITY_LEVELS == [info |-> 1, warning |-> 2, error |-> 3, critical |-> 4]

\* `window': the start and the end of the quiet hours, which the events meet.
Windows == {"null", "given"}
Policies == [min : {"info", "error"}, quiet : BOOLEAN, window : Windows, bypass : BOOLEAN]
NoRule == [min |-> "none"]
BASE_GLOBAL_POLICY == [min |-> "error", quiet |-> FALSE, window |-> "null", bypass |-> TRUE]

\* The default of the event type that the rule of scope `event' is about.
EVENT_DEFAULT_POLICIES == [min |-> "info", quiet |-> "unset", window |-> "unset", bypass |-> "no"]

TypeOK == rules \in [Targets -> Policies \cup {NoRule}]

Init == rules = [t \in Targets |-> NoRule]

\* What the dashboard may send: quiet hours are switched on with their window.
Sent == [min : {"unset", "null", "info", "error"}, quiet : {"unset", "null", "yes", "no"},
         window : Windows \cup {"unset"}, bypass : {"unset", "null", "yes", "no"}]
validatePolicyRule(r) == r.quiet = "yes" => r.window = "given"

\* A field keeps its value where the rule is silent; null is the default, but
\* for the window, which null empties.
Field(old, new, default) ==
    CASE new = "unset" -> old
      [] new = "null"  -> default
      [] new = "yes"   -> TRUE
      [] new = "no"    -> FALSE
      [] OTHER         -> new
mergePolicyRule(base, r) ==
    [min    |-> Field(base.min, r.min, BASE_GLOBAL_POLICY.min),
     quiet  |-> Field(base.quiet, r.quiet, FALSE),
     window |-> IF r.window = "unset" THEN base.window ELSE r.window,
     bypass |-> Field(base.bypass, r.bypass, TRUE)]

\* A context is what an event is about: the scopes whose rules match it.
ruleMatchesContext(t, context) == t = "global" \/ t \in context
Contexts == SUBSET {"event", "identity"}

Defaults(context) ==
    IF "event" \in context THEN mergePolicyRule(BASE_GLOBAL_POLICY, EVENT_DEFAULT_POLICIES)
                           ELSE BASE_GLOBAL_POLICY

\* Mutant: a FALSE of the row counts as unset.
AsRuleFalsy(p) == [p EXCEPT !.quiet = IF @ THEN "yes" ELSE "unset",
                            !.bypass = IF @ THEN "yes" ELSE "unset"]
\* listPolicies: the fields of a row are all set.
AsRule(p) == [p EXCEPT !.quiet = IF @ THEN "yes" ELSE "no", !.bypass = IF @ THEN "yes" ELSE "no"]

Layer(base, table, t, context) ==
    IF table[t] = NoRule \/ ~ruleMatchesContext(t, context) THEN base
    ELSE mergePolicyRule(base, AsRule(table[t]))

resolveEffectivePolicy(table, context) ==
    Layer(Layer(Layer(Defaults(context), table, Scopes[1], context),
                table, Scopes[2], context), table, Scopes[3], context)

\* The last checks of a resolution, which throw.
validateAtomicQuietHours(p) == p.quiet => p.window # "null"

isQuietHours(p) == p.quiet /\ p.window = "given"

evaluateNotificationDispatch(p, severity) ==
    /\ SEVERITY_LEVELS[severity] >= SEVERITY_LEVELS[p.min]
    /\ isQuietHours(p) => severity = "critical" /\ p.bypass

\* routeStoredEvent: whether an event gets a delivery.
Delivers(table, context, severity) ==
    evaluateNotificationDispatch(resolveEffectivePolicy(table, context), severity)

\* The context in which PUT and the digests resolve a target alone.
policyContext(t) == IF t = "global" THEN {} ELSE {t}

\* resolveEffectivePolicy([rule], policyContext(target)) of the PUT handler, for
\* the rules that pass: a rule that resolves to no policy is refused.
Snapshots == [t \in Targets |->
    LET sent == {mergePolicyRule(Defaults(policyContext(t)), r) :
                   r \in {r \in Sent : validatePolicyRule(r)}}
    IN  {p \in sent : validateAtomicQuietHours(p)}]

upsertPolicy(t, p) == rules' = [rules EXCEPT ![t] = p]

Put(t) == \E p \in Snapshots[t] : upsertPolicy(t, p)

Delete(t) == rules[t] # NoRule /\ rules' = [rules EXCEPT ![t] = NoRule]

Next == \E t \in Targets : Put(t) \/ Delete(t)

Spec == Init /\ [][Next]_vars

(***************************************************************************)
(* Properties                                                              *)
(***************************************************************************)
\* The row of the most specific scope that matches an event decides alone whether
\* it is delivered, and no combination of rows makes a resolution throw: that
\* happens inside the transaction that stores a batch (routeStoredEvent), and its
\* exception would refuse the same batch forever.
SpecificRowDecides ==
    \A context \in Contexts :
        /\ validateAtomicQuietHours(resolveEffectivePolicy(rules, context))
        /\ LET matching == {i \in DOMAIN Scopes :
                 rules[Scopes[i]] # NoRule /\ ruleMatchesContext(Scopes[i], context)}
           IN  \A i \in matching, severity \in DOMAIN SEVERITY_LEVELS :
                 (\A j \in matching : j <= i) =>
                   (Delivers(rules, context, severity)
                    <=> evaluateNotificationDispatch(rules[Scopes[i]], severity))
=============================================================================
