-------------------------- MODULE CommandListener --------------------------
(***************************************************************************)
(* The commands of the Telegram chat (startCommandListener in              *)
(* src/telegram.ts): updates are fetched from an offset, handled one by    *)
(* one, and passed by the offset that the next fetch sends.  Telegram      *)
(* keeps what no offset has passed.  The offset lives in memory alone.     *)
(***************************************************************************)
EXTENDS Integers, Sequences, FiniteSetsExt

CONSTANTS
    MaxUpdates,            \* bound: the updates, numbered in the order of their arrival
    BatchLimit,            \* how many Telegram hands out at a time
    Pages,                 \* the messages of the longest answer
    MaxFailures,           \* bound: sends that fail
    MaxStops               \* bound: ends of the process

VARIABLES
    kind,                  \* of the updates that have arrived
    confirmed,             \* Telegram forgot the updates up to this one
    lastOffset,
    batch,                 \* what was fetched and not yet handled
    state,                 \* of the listener
    sent,                  \* the pages of the present answer that were sent
    answers,               \* how often each update was answered in full
    order,                 \* the updates, as they were done with
    failures, stops        \* for the bounds

vars == <<kind, confirmed, lastOffset, batch, state, sent, answers, order, failures, stops>>

\* A command with one page or several, and what is not for the bot.
Kinds == {"command", "pages", "foreign"}
PagesOf(k) == IF k = "pages" THEN Pages ELSE 1

TypeOK ==
    /\ kind \in Seq(Kinds) /\ Len(kind) <= MaxUpdates
    /\ confirmed \in 0 .. Len(kind) /\ lastOffset \in 0 .. MaxUpdates + 1
    /\ state \in {"fetching", "handling", "backoff", "stopped"}
    /\ Len(answers) = Len(kind) /\ sent \in 0 .. Pages

Init ==
    /\ kind = <<>> /\ answers = <<>> /\ order = <<>>
    /\ confirmed = 0 /\ lastOffset = 0 /\ batch = <<>> /\ sent = 0
    /\ state = "fetching" /\ failures = 0 /\ stops = 0

\* A member of the chat writes.
Arrive(k) ==
    /\ Len(kind) < MaxUpdates
    /\ kind' = Append(kind, k) /\ answers' = Append(answers, 0)
    /\ UNCHANGED <<confirmed, lastOffset, batch, state, sent, order, failures, stops>>

\* A fetch confirms what its offset has passed.  The answer may get lost.
getUpdates ==
    /\ state = "fetching"
    /\ confirmed' = Max({confirmed, lastOffset - 1})
    /\ \/ /\ batch' = [i \in 1 .. Min({BatchLimit, Len(kind) - confirmed'}) |-> confirmed' + i]
          /\ state' = IF batch' = <<>> THEN "fetching" ELSE "handling"
          /\ UNCHANGED failures
       \/ /\ failures < MaxFailures /\ failures' = failures + 1
          /\ state' = "backoff" /\ UNCHANGED batch
    /\ UNCHANGED <<kind, lastOffset, sent, answers, order, stops>>

\* Mutant: an update that could not be answered is passed as well.
PassedAnyway(offset, update) == IF update >= offset THEN update + 1 ELSE offset
\* The offset after a failed answer.
PassedOnFailure(offset, update) == offset
Passed(offset, update) == IF update >= offset THEN update + 1 ELSE offset

\* The outcomes acknowledged and ignored.
Advance(update) ==
    /\ lastOffset' = Passed(lastOffset, update)
    /\ batch' = Tail(batch) /\ sent' = 0 /\ order' = Append(order, update)
    /\ state' = IF Len(batch) = 1 THEN "fetching" ELSE "handling"

Ignore ==
    /\ state = "handling" /\ kind[Head(batch)] = "foreign"
    /\ Advance(Head(batch))
    /\ UNCHANGED <<kind, confirmed, answers, failures, stops>>

\* processCommandUpdate and processCallbackQuery: the pages go out one by one; the
\* request that sends a page gives up after three attempts.
processCommandUpdate ==
    /\ state = "handling" /\ kind[Head(batch)] # "foreign"
    /\ LET update == Head(batch)
       IN  \/ /\ sent + 1 < PagesOf(kind[update]) /\ sent' = sent + 1
              /\ UNCHANGED <<lastOffset, batch, state, answers, order, failures>>
           \/ /\ sent + 1 = PagesOf(kind[update])
              /\ answers' = [answers EXCEPT ![update] = @ + 1]
              /\ Advance(update) /\ UNCHANGED failures
           \/ /\ failures < MaxFailures /\ failures' = failures + 1
              /\ lastOffset' = PassedOnFailure(lastOffset, update)
              /\ batch' = <<>> /\ sent' = 0 /\ state' = "backoff"
              /\ UNCHANGED <<answers, order>>
    /\ UNCHANGED <<kind, confirmed, stops>>

Wait ==
    /\ state = "backoff" /\ state' = "fetching"
    /\ UNCHANGED <<kind, confirmed, lastOffset, batch, sent, answers, order, failures, stops>>

\* A stop takes effect between two updates, the end of the process at any time.
Stop ==
    /\ stops < MaxStops /\ stops' = stops + 1
    /\ state' = "stopped" /\ batch' = <<>> /\ sent' = 0 /\ lastOffset' = 0
    /\ UNCHANGED <<kind, confirmed, answers, order, failures>>

startCommandListener ==
    /\ state = "stopped" /\ state' = "fetching"
    /\ UNCHANGED <<kind, confirmed, lastOffset, batch, sent, answers, order, failures, stops>>

Listen == getUpdates \/ Ignore \/ processCommandUpdate \/ Wait \/ startCommandListener

Next == (\E k \in Kinds : Arrive(k)) \/ Listen \/ Stop

Spec == Init /\ [][Next]_vars

(***************************************************************************)
(* Properties                                                              *)
(***************************************************************************)
\* "without message loss" (telegram.ts:1751): no update is confirmed to Telegram
\* before it was done with, whatever fails or ends in between; updates are done
\* with in their order, again only from the start after a stop, and without one
\* no command is answered twice.
NoCommandLost ==
    /\ \A u \in 1 .. confirmed : kind[u] = "foreign" \/ answers[u] > 0
    /\ \A i \in DOMAIN order : i > 1 => order[i] <= order[i - 1] + 1
    /\ stops = 0 => \A u \in DOMAIN answers : answers[u] <= 1
=============================================================================
