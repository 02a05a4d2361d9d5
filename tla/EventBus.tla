---------------------------- MODULE EventBus ----------------------------
(***************************************************************************)
(* EventBus::publish (src/src/bus.rs): any number of concurrent calls on   *)
(* one bus, each a future that checks the ACL, routes to a provider,       *)
(* claims its idempotency key, tries the provider under the retry policy,  *)
(* and on failure publishes a dead letter.  The calls share the            *)
(* idempotency store, the counters and the providers; a caller may drop    *)
(* the future wherever it waits.                                           *)
(*                                                                         *)
(* One action per stretch of code between two accesses to shared state.    *)
(* Delays, wording of errors, spans and payloads are left out.             *)
(***************************************************************************)
EXTENDS Integers, Sequences, FiniteSets

CONSTANTS
  Calls,          \* calls of publish, each with its own envelope
  Chars,          \* characters of tenant ids and idempotency keys
  Separator,      \* the ":" between them in a composed key
  NoKey,          \* stands for an envelope without "idempotency_key"
  Topics,
  Errors,         \* messages a provider may fail with
  Event,          \* the envelope of each call
  Registrations,  \* providers in registration order, with their policy
  AclRules,       \* rules in order
  DefaultAllow    \* what holds when no rule matches

Envelopes ==
  [tenant : Seq(Chars), key : Seq(Chars) \cup {NoKey}, topic : Topics]

\* What matches_pattern decides is given by the set of topics a
\* registration serves and the tenants and topics a rule matches.
ProviderRegistration ==
  [topics : SUBSET Topics, maxRetries : Nat, retryableErrors : SUBSET Errors]

TopicAclRule ==
  [tenants : SUBSET Seq(Chars), topics : SUBSET Topics, allowPublish : BOOLEAN]

\* A TenantId never contains a colon (it is validated where it is made, in
\* the greentic-types crate); an idempotency key is any string.
ASSUME EventAssumption ==
  /\ Event \in [Calls -> Envelopes]
  /\ Separator \in Chars
  /\ NoKey \notin Seq(Chars)
  /\ \A c \in Calls :
       \A i \in DOMAIN Event[c].tenant : Event[c].tenant[i] # Separator

ASSUME ConfigAssumption ==
  /\ Registrations \in Seq(ProviderRegistration)
  /\ DefaultAllow \in BOOLEAN
  /\ AclRules \in Seq(TopicAclRule)

VARIABLES
  pc,        \* where the future of a call is
  result,    \* what publish returned, "none" before it does
  provider,  \* index of the registration the call borrowed, 0 before routing
  attempt,   \* the loop variable of publish_with_retry
  lastErr,   \* last_err of publish_with_retry, "none" at first
  taken,     \* the provider has taken the event of the pending call
  seen,      \* InMemoryIdempotencyStore.seen
  metrics,   \* the four counters of EventMetrics
  copies,    \* times a provider took the event itself
  letters    \* times a provider took it as a dead letter

vars == <<pc, result, provider, attempt, lastErr, taken,
          seen, metrics, copies, letters>>

InProvider == {"calling", "dlqCalling"}

Stages == {"idle", "recordKey", "calling", "sleeping", "recordOut",
           "recordFailed", "dlqCalling", "recordDlq", "done"}

Results == {"none", "ok", "aclDenied", "noProvider", "duplicate",
            "deliveryFailed", "dropped"}

---------------------------------------------------------------------------
(* Operators of the code that only read *)

First(S) == CHOOSE i \in S : \A j \in S : i <= j

\* TopicAclRule::matches
RulesFor(ev) ==
  {i \in DOMAIN AclRules :
     ev.tenant \in AclRules[i].tenants /\ ev.topic \in AclRules[i].topics}

\* Mutant: the last matching rule decides.
AllowPublishLastRule(ev) ==
  IF RulesFor(ev) = {} THEN DefaultAllow
  ELSE AclRules[CHOOSE i \in RulesFor(ev) :
                  \A j \in RulesFor(ev) : j <= i].allowPublish

\* TopicAcl::allow_publish: the first matching rule decides.
AllowPublish(ev) ==
  IF RulesFor(ev) = {} THEN DefaultAllow
  ELSE AclRules[First(RulesFor(ev))].allowPublish

Serving(topic) == {i \in DOMAIN Registrations : topic \in Registrations[i].topics}

\* EventBus::provider_for_topic
ProviderForTopic(topic) == First(Serving(topic))

\* Mutant: the composed key leaves the separator out.
ComposedKeyUnseparated(ev) == ev.tenant \o ev.key

\* format!("{}:{}", tenant, key)
ComposedKey(ev) == ev.tenant \o <<Separator>> \o ev.key

Policy(c) == Registrations[provider[c]]

\* RetryPolicy::is_retryable
IsRetryable(policy, err) ==
  policy.retryableErrors = {} \/ err \in policy.retryableErrors

\* Mutant: one attempt more than the budget.
GivesUpLate(c, err) ==
  attempt[c] > Policy(c).maxRetries \/ ~IsRetryable(Policy(c), err)

\* Mutant: the kind of error is not looked at.
GivesUpOnBudgetOnly(c, err) == attempt[c] = Policy(c).maxRetries

\* the test that ends the retry loop
GivesUp(c, err) ==
  attempt[c] = Policy(c).maxRetries \/ ~IsRetryable(Policy(c), err)

Keyed(c) == Event[c].key # NoKey

---------------------------------------------------------------------------
Init ==
  /\ pc = [c \in Calls |-> "idle"]
  /\ result = [c \in Calls |-> "none"]
  /\ provider = [c \in Calls |-> 0]
  /\ attempt = [c \in Calls |-> 0]
  /\ lastErr = [c \in Calls |-> "none"]
  /\ taken = [c \in Calls |-> FALSE]
  /\ seen = {}
  /\ metrics = [in |-> 0, out |-> 0, failed |-> 0, dlq |-> 0]
  /\ copies = [c \in Calls |-> 0]
  /\ letters = [c \in Calls |-> 0]

At(c, stage) == pc[c] = stage /\ result[c] = "none"

Goto(c, stage) ==
  /\ pc' = [pc EXCEPT ![c] = stage]
  /\ UNCHANGED result

Return(c, value) ==
  /\ pc' = [pc EXCEPT ![c] = "done"]
  /\ result' = [result EXCEPT ![c] = value]

Count(counter) == metrics' = [metrics EXCEPT ![counter] = @ + 1]

\* acl.allow_publish(..)? fails
DenyAcl(c) ==
  /\ At(c, "idle")
  /\ ~AllowPublish(Event[c])
  /\ Return(c, "aclDenied")
  /\ UNCHANGED <<provider, attempt, lastErr, taken, seen, metrics, copies, letters>>

\* provider_for_topic(..)? fails
NoProvider(c) ==
  /\ At(c, "idle")
  /\ AllowPublish(Event[c])
  /\ Serving(Event[c].topic) = {}
  /\ Return(c, "noProvider")
  /\ UNCHANGED <<provider, attempt, lastErr, taken, seen, metrics, copies, letters>>

\* Mutant: the event is only counted in when it carries no key.
AcceptUncounted(c) ==
  /\ At(c, "idle")
  /\ AllowPublish(Event[c])
  /\ Serving(Event[c].topic) # {}
  /\ provider' = [provider EXCEPT ![c] = ProviderForTopic(Event[c].topic)]
  /\ IF Keyed(c) THEN Goto(c, "recordKey") /\ UNCHANGED metrics
                 ELSE Goto(c, "calling") /\ Count("in")
  /\ UNCHANGED <<attempt, lastErr, taken, seen, copies, letters>>

\* ACL and routing pass, the event is counted in; without a key the first
\* call of the provider follows at once.
Accept(c) ==
  /\ At(c, "idle")
  /\ AllowPublish(Event[c])
  /\ Serving(Event[c].topic) # {}
  /\ provider' = [provider EXCEPT ![c] = ProviderForTopic(Event[c].topic)]
  /\ Count("in")
  /\ Goto(c, IF Keyed(c) THEN "recordKey" ELSE "calling")
  /\ UNCHANGED <<attempt, lastErr, taken, seen, copies, letters>>

\* Mutant: the key is only looked up, to be stored after the delivery.
ClaimKeyLookup(c) ==
  /\ At(c, "recordKey")
  /\ ComposedKey(Event[c]) \notin seen
  /\ Goto(c, "calling")
  /\ UNCHANGED <<provider, attempt, lastErr, taken, seen, metrics, copies, letters>>

\* record_key under the store's mutex: the key is new
ClaimKey(c) ==
  /\ At(c, "recordKey")
  /\ ComposedKey(Event[c]) \notin seen
  /\ seen' = seen \cup {ComposedKey(Event[c])}
  /\ Goto(c, "calling")
  /\ UNCHANGED <<provider, attempt, lastErr, taken, metrics, copies, letters>>

\* record_key finds the key
RejectDuplicate(c) ==
  /\ At(c, "recordKey")
  /\ ComposedKey(Event[c]) \in seen
  /\ Return(c, "duplicate")
  /\ UNCHANGED <<provider, attempt, lastErr, taken, seen, metrics, copies, letters>>

\* The provider takes the event of a pending call; it may still answer
\* with an error, or its answer may never be read.
ProviderTakes(c) ==
  /\ At(c, "calling") \/ At(c, "dlqCalling")
  /\ ~taken[c]
  /\ taken' = [taken EXCEPT ![c] = TRUE]
  /\ IF pc[c] = "calling"
     THEN copies' = [copies EXCEPT ![c] = @ + 1] /\ UNCHANGED letters
     ELSE letters' = [letters EXCEPT ![c] = @ + 1] /\ UNCHANGED copies
  /\ UNCHANGED <<pc, result, provider, attempt, lastErr, seen, metrics>>

\* provider.instance.publish returns Ok
AttemptSucceeds(c) ==
  /\ At(c, "calling")
  /\ taken[c]
  /\ Goto(c, "recordOut")
  /\ UNCHANGED <<provider, attempt, lastErr, taken, seen, metrics, copies, letters>>

\* Mutant: the last error is swallowed.
AttemptFailsSwallowed(c, err) ==
  /\ At(c, "calling")
  /\ lastErr' = [lastErr EXCEPT ![c] = err]
  /\ Goto(c, IF GivesUp(c, err) THEN "recordOut" ELSE "sleeping")
  /\ UNCHANGED <<provider, attempt, taken, seen, metrics, copies, letters>>

\* provider.instance.publish returns Err: sleep before the next attempt, or
\* leave the loop
AttemptFails(c, err) ==
  /\ At(c, "calling")
  /\ lastErr' = [lastErr EXCEPT ![c] = err]
  /\ Goto(c, IF GivesUp(c, err) THEN "recordFailed" ELSE "sleeping")
  /\ UNCHANGED <<provider, attempt, taken, seen, metrics, copies, letters>>

\* Mutant: the retry does not count as an attempt.
WakeUncounted(c) ==
  /\ At(c, "sleeping")
  /\ taken' = [taken EXCEPT ![c] = FALSE]
  /\ Goto(c, "calling")
  /\ UNCHANGED <<provider, attempt, lastErr, seen, metrics, copies, letters>>

\* the delay is over, the next iteration calls the provider again
Wake(c) ==
  /\ At(c, "sleeping")
  /\ attempt' = [attempt EXCEPT ![c] = @ + 1]
  /\ taken' = [taken EXCEPT ![c] = FALSE]
  /\ Goto(c, "calling")
  /\ UNCHANGED <<provider, lastErr, seen, metrics, copies, letters>>

\* record_out, Ok(())
RecordOut(c) ==
  /\ At(c, "recordOut")
  /\ Count("out")
  /\ Return(c, "ok")
  /\ UNCHANGED <<provider, attempt, lastErr, taken, seen, copies, letters>>

\* record_failed, then publish_to_dlq calls the same provider
RecordFailed(c) ==
  /\ At(c, "recordFailed")
  /\ Count("failed")
  /\ taken' = [taken EXCEPT ![c] = FALSE]
  /\ Goto(c, "dlqCalling")
  /\ UNCHANGED <<provider, attempt, lastErr, seen, copies, letters>>

\* the provider answers the dead letter, Ok or Err: the answer is ignored
DlqReturns(c) ==
  /\ At(c, "dlqCalling")
  /\ Goto(c, "recordDlq")
  /\ UNCHANGED <<provider, attempt, lastErr, taken, seen, metrics, copies, letters>>

\* record_dlq, Err(DeliveryFailed)
RecordDlq(c) ==
  /\ At(c, "recordDlq")
  /\ Count("dlq")
  /\ Return(c, "deliveryFailed")
  /\ UNCHANGED <<provider, attempt, lastErr, taken, seen, copies, letters>>

\* The caller drops the future at one of its await points: nothing after
\* that point runs, and nothing before it is undone.
Drop(c) ==
  /\ At(c, "calling") \/ At(c, "sleeping") \/ At(c, "dlqCalling")
  /\ result' = [result EXCEPT ![c] = "dropped"]
  /\ UNCHANGED <<pc, provider, attempt, lastErr, taken, seen, metrics, copies, letters>>

\* What the call itself does once it is polled, and the provider's answers
Progress(c) ==
  \/ DenyAcl(c) \/ NoProvider(c) \/ Accept(c)
  \/ ClaimKey(c) \/ RejectDuplicate(c)
  \/ AttemptSucceeds(c)
  \/ \E err \in Errors : AttemptFails(c, err)
  \/ Wake(c) \/ RecordOut(c) \/ RecordFailed(c)
  \/ DlqReturns(c) \/ RecordDlq(c)

Next == \E c \in Calls : Progress(c) \/ ProviderTakes(c) \/ Drop(c)

Spec == Init /\ [][Next]_vars

\* A spawned or awaited call is polled until it ends, its timers fire, and
\* providers answer; nothing forces a provider to take an event.
FairSpec == Spec /\ \A c \in Calls : WF_vars(Progress(c))

---------------------------------------------------------------------------
(* Properties *)

Working == {"calling", "sleeping", "recordOut", "recordFailed",
            "dlqCalling", "recordDlq"}

\* The call got past the key check, whatever became of it.
Admitted(c) == pc[c] \in Working \/ result[c] \in {"ok", "deliveryFailed"}

\* Two calls that carry the same tenant and the same idempotency key.
SameIdentity(c, d) ==
  /\ c # d
  /\ Keyed(c)
  /\ Event[c].tenant = Event[d].tenant
  /\ Event[c].key = Event[d].key

HandedOver(c) == copies[c] + letters[c] > 0

\* Types of the state.
TypeOK ==
  /\ pc \in [Calls -> Stages]
  /\ result \in [Calls -> Results]
  /\ provider \in [Calls -> 0 .. Len(Registrations)]
  /\ attempt \in [Calls -> Nat]
  /\ lastErr \in [Calls -> Errors \cup {"none"}]
  /\ taken \in [Calls -> BOOLEAN]
  /\ seen \subseteq Seq(Chars)
  /\ metrics \in [{"in", "out", "failed", "dlq"} -> Nat]
  /\ copies \in [Calls -> Nat]
  /\ letters \in [Calls -> Nat]

\* Of the calls with one tenant and idempotency key, a provider gets to see
\* the event of one call at most, as an event or as a dead letter, however
\* the calls interleave, fail, are retried or are dropped.
OneCallPerKey ==
  \A c, d \in Calls : SameIdentity(c, d) => ~(HandedOver(c) /\ HandedOver(d))

\* A call is only told it is a duplicate when another call of the same tenant
\* with the same key was admitted: composed keys of different tenants or keys
\* never collide.  (The holder may have failed or been dropped since.)
DuplicateHasHolder ==
  \A c \in Calls : result[c] = "duplicate" =>
    \E d \in Calls : SameIdentity(c, d) /\ Admitted(d)

\* The counters account for every event: one counted in is counted out or
\* failed, was a duplicate, or is a call that still runs or was dropped
\* before either; one counted failed is counted as a dead letter unless its
\* call is still there or was dropped there.
MetricsBalance ==
  /\ metrics.in = metrics.out + metrics.failed
       + Cardinality({c \in Calls : result[c] = "duplicate"})
       + Cardinality({c \in Calls : pc[c] \in
           {"recordKey", "calling", "sleeping", "recordOut", "recordFailed"}})
  /\ metrics.failed = metrics.dlq
       + Cardinality({c \in Calls : pc[c] \in {"dlqCalling", "recordDlq"}})

\* A provider sees an event at most maxRetries + 1 times, and a call is only
\* reported as failed after its budget is spent or on an error its policy
\* does not retry.
RetryBudget ==
  \A c \in Calls : provider[c] # 0 =>
    /\ copies[c] <= Policy(c).maxRetries + 1
    /\ result[c] = "deliveryFailed" =>
         \/ attempt[c] = Policy(c).maxRetries
         \/ ~IsRetryable(Policy(c), lastErr[c])

\* Once an attempt failed with an error outside retryable_errors, the event
\* itself is never handed to the provider again.
NoAttemptAfterFatalError ==
  [][\A c \in Calls : copies'[c] # copies[c] =>
       lastErr[c] = "none" \/ IsRetryable(Policy(c), lastErr[c])]_vars

\* An event a provider has seen was let through by the first ACL rule that
\* matches its tenant and topic (by the default if none does), and the
\* provider is the one registered first of those that serve the topic.
TakenWhereConfigured ==
  \A c \in Calls : HandedOver(c) =>
    /\ \/ RulesFor(Event[c]) = {} /\ DefaultAllow
       \/ \E i \in RulesFor(Event[c]) :
            /\ AclRules[i].allowPublish
            /\ \A j \in 1 .. (i - 1) : j \notin RulesFor(Event[c])
    /\ provider[c] \in Serving(Event[c].topic)
    /\ \A j \in 1 .. (provider[c] - 1) : j \notin Serving(Event[c].topic)

\* Every call of publish returns or is dropped: the retry loop ends, and
\* neither a duplicate nor a failing dead letter keeps it.
PublishReturns == <>(\A c \in Calls : result[c] # "none")

---------------------------------------------------------------------------
(* Refinement: the bus implements PublishContract *)

PhaseOf(c) ==
  CASE result[c] = "ok" -> "delivered"
    [] result[c] = "deliveryFailed" -> "failed"
    [] result[c] = "dropped" -> "abandoned"
    [] result[c] \in {"aclDenied", "noProvider", "duplicate"} -> "refused"
    [] OTHER -> IF pc[c] \in Working THEN "open" ELSE "new"

BarredCalls ==
  {c \in Calls : ~AllowPublish(Event[c]) \/ Serving(Event[c].topic) = {}}

BudgetOf(c) ==
  IF Serving(Event[c].topic) = {} THEN 0
  ELSE Registrations[ProviderForTopic(Event[c].topic)].maxRetries + 1

Contract == INSTANCE PublishContract WITH
  Barred <- BarredCalls,
  Rivals <- [c \in Calls |-> {d \in Calls : SameIdentity(c, d)}],
  Budget <- [c \in Calls |-> BudgetOf(c)],
  phase <- [c \in Calls |-> PhaseOf(c)]

\* Every behaviour of the bus is one its callers may rely on.
ImplementsContract == Contract!Spec

=========================================================================
