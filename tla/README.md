# greentic-events in TLA+

TLA+ specifications of greentic-events: the event bus with publish, subscribe
and its builder, the broker and dry-run subscriptions, the install routing and
synchronisation, the topic matcher, the end-to-end pack harness
and the pack validators; the TLC configurations that check them on small
instances, and TLAPS proofs of the main safety properties of the stateful core
for every value of the constants. Paths below are relative to `src/`, the root
of the repository.

    tlc -workers 2 -config EventBus.cfg MCEventBus.tla        # one of the runs
    tlapm EventBusProofs.tla                                  # one proof module

## The system

| Component | State it keeps | Operations | Interacts through | What makes it correct |
|---|---|---|---|---|
| Event bus (`src/bus.rs`) | providers in order, ACL, key store, counters | `publish`, `subscribe`, `build`, `register_from_pack_dir` | awaits on providers, shared store and counters | one delivery per key; bounded retries; right provider; counters add up; publish returns |
| Topic ACL (`src/acl.rs`), patterns (`src/pattern.rs`) | rules in order; none | `allow_publish`, `allow_subscribe`; `matches_pattern` | pure calls from the bus | first matching rule decides; the glob its comment describes |
| Idempotency (`src/idempotency.rs`) | set of keys under a mutex | `record_key` | called by concurrent publishes | test and set in one step |
| Retry policy (`src/backoff.rs`), runtime options (`crates/greentic-events-runtime/src/lib.rs`) | policy | `is_retryable`, `delay_for_attempt`, `retry_policy_from` | retry loops of bus and install sync | fatal errors are not retried; the budget is kept |
| Metrics (`src/metrics.rs`) | four counters | `record_*` | bumped by every publish | account for every event |
| Runner provider (`src/runner.rs`, `src/subscription.rs`) | polling task, bounded channel, handle | `publish`, `subscribe`, `next` | host broker, channel, acknowledgements | nothing skipped or reordered; no early acknowledgement; the end is seen |
| Install runtime (`crates/greentic-events-runtime/src/install.rs`) | install records, metadata | `sync_all`, `build_sink_router`, `emit`, `start_sources`, `resolve` | install store, driver, value stores | records match the remote service; diagnostics are accurate; degraded at the limit |
| Pack registration and bridges (`src/bus.rs`, `src/bridge.rs`, `src/provider.rs`) | builder, overrides, registries | builder calls | factories | override precedence; no half registration |
| End-to-end harness (`src/e2e.rs`) | report, dry-run providers | `run_e2e`, `run_pack`, flow traversal | bus, timeouts, spawned tasks | every stage reported; dry-run subscriptions complete |
| Validators (`crates/greentic-events-validate`, `crates/greentic-events-pack-validator`, `src/validate.rs`) | none | pack and input checks | none | native and WASM verdicts agree |
| Operations, CLIs (`src/provider_ops.rs`, `src/bin`) | none | dispatch, printing | all of the above | - |

The behaviours that are hard to test: publishes that race for one key, are
retried, time out or are dropped at an await; a channel that fills, closes or
loses an acknowledgement; passes over installs in which resolver, driver and
store fail independently, are cut short, or overlap with other writers of the
record; a pack that fails to load
half way; a timeout that meets a stage at an await, or a blocking command it
cannot reach. `PROJECT.json` lists each hazard at its line with the properties
that cover it, or with the reason why none does.

## Modules

### EventBus and PublishContract

`EventBus` models any number of concurrent calls of `EventBus::publish`. The
state of a call is `pc` (the await or the stretch of code it is at), `result`,
`provider` (the registration it borrowed), `attempt` and `lastErr` (the
variables of `publish_with_retry`). Shared are `seen` (the idempotency store)
and `metrics`. `copies`, `letters` and `taken` are what the provider did: it
may take the event of a pending call, and then still answer with an error.

| Action | Code |
|---|---|
| `DenyAcl`, `NoProvider`, `Accept` | `allow_publish?`, `provider_for_topic?`, `record_in` (bus.rs:64-75) |
| `ClaimKey`, `RejectDuplicate` | `record_key` (bus.rs:75-80, idempotency.rs:22) |
| `ProviderTakes` | the provider, outside the bus |
| `AttemptSucceeds`, `AttemptFails`, `Wake` | the loop of `publish_with_retry` (bus.rs:173-196) |
| `RecordOut`, `RecordFailed`, `DlqReturns`, `RecordDlq` | the rest of `publish` and `publish_to_dlq` |
| `Drop` | the caller drops the future at an await |

Registrations and ACL rules carry the set of topics and tenants they match;
what a pattern matches is the subject of `PatternMatch`. Tenants and keys are
sequences of characters because the composed key is a question about
characters. `PublishContract` is what a caller may rely on, without provider
loop or store; `ImplementsContract` says the bus implements it.

### RunnerSubscription

One subscription of `RunnerBrokerProvider`: the broker with at-least-once
delivery (`Publish`, `Redeliver`, external), the spawned task (`NextEvent`,
`NextTimesOut`, `Resume`, `NextFails`, `Send`, `SendFails`, `AckEvent`), the
bounded channel of `subscription_channel` and the reader (`Receive`,
`ReceiveEnd`, `DropHandle`). `held` is the event the task has converted and
waits to send; `handed` is a history of what the broker gave out.

### InstallSync

`SubscriptionsWorker::sync_all` for the installs of one provider, by
any number of workers on one store. A worker goes from `List` through
`Begin`/`ResolveFails` for each install, `DriverSucceeds`/`DriverFails`/
`Retry`/`DriverGivesUp` for the retry loop of `sync_install`, to
`StoreOk`/`StoreFailure`/`StoreFails` for `update_install`; `Interrupt` is a
stop or a dropped future. What is written back is always the *listed* record
with fields changed. A worker that returns from an install or a pass keeps
nothing of it, like the locals of the two functions. `remote` numbers the
changes at the remote service (a driver that fails may have made one),
`streak` counts failures in a row and `alone` marks a pass that no other pass
has run beside, all to state the properties. A limit of zero, which
`with_max_failures` accepts, is allowed. Two simplifications: a store call that
fails has not written (the repository has one store, in memory, that never
fails; of another one `DiagnosedIsNotSynced` could not be said), and the
failure count, a saturating `u32`, is a natural number.

### PatternMatch

The loop of `simple_match`, one turn per step, with its four cursors; every
pattern and text within the bounds is an initial state. `Glob`, the reference
definition, says that the text can be cut into the pieces the pattern stands
for, and searches for nothing. The loop sees bytes, and so does `Glob`.

### DryRunSubscription

One subscription of `DryRunProvider`: `Push` and `Broadcast` are the two steps
of `publish`, `Subscribe`, `Replay` and `Attach` the steps of `subscribe`,
`Recv`, `RecvLagged`, `Forward` and `ForwardFails` the spawned forwarder. The
broadcast channel is the sequence of everything sent, with a cursor; a
receiver more than `Ring` behind is lagging. The one caller of this provider in
the repository, `FixtureSubscriptionRunner` (src/e2e.rs:425-475), subscribes
once without `deliver_existing`, then publishes one event and reads it: it
never meets a replay, an overlap or a lag. The properties say what the provider
does for any caller; they are not listed under a hazard.

### BusSubscription

`EventBus::subscribe` beside `publish`, for many events and subscribers, with
ACL rules and providers as in `EventBus` and the two-step `publish` and
`subscribe` of `DryRunProvider` behind them: `RefusePublish`/`RefuseSubscribe`
are the errors of ACL and routing, `Push`, `Broadcast`, `Subscribe` and
`Attach` the steps of the provider, `Recv`, `Lag` and `Send` those of the task
that forwards, `Close` the dropped handle. An event goes from the broadcast to
`unread`, from there to the `hand` of the task and then to `inbox`, which is
all that has been sent to a handle. The sizes of ring and channel are constants
and the number of events is not bounded by them: a list that does not fit the
channel leaves the caller of `subscribe` waiting ("stuck"), a task more than
the ring behind takes the error for the end ("lagged"). When the caller reads,
and so how long a send waits, is left open, and what `EventBus` shows (retries,
keys) is left out. `audience` and `before` record who was there in time and are
only read by the properties.

### PackRegistration

`EventBusBuilder` as a machine whose steps are the builder calls
(`WithOverrides`, `RegisterProvider`, `RegisterBridge`, `LoadPack`, `Build`)
and, inside `register_from_pack_dir`, one provider of the pack per step with
the factory's await between (`SkipBridge`, `MessageBridgeBuilt`,
`EventBridgeBuilt`, `ProviderBuilt`, `FactoryFails`). `history` is the list of
calls made, from which `OverridePrecedence` says what the bus must hold; a
registration carries the call and the position in its pack it comes from.

### ConfigFlow and E2ePack

`E2ePack` is `run_e2e_with` and `run_pack`: packs one after the other, five
stages each, one timeout around them. `StagePasses`, `StageFails`,
`FailAtOnce`, `PassAtOnce` and `SkipStage` are stages that do not wait,
`StageWaits`, `WaitSucceeds` and `WaitFails` those at an await, `StartCommand`,
`NextCommand`, `LastCommandSucceeds` and `CommandFails` live commands the
thread blocks on. `Expire` is the deadline passing and `TimeoutFires` the
timer winning, which takes an await. What a pack holds is an input;
`ConfigFlow` is the walk of its config flows: `Turn` is one turn of the while
loop, `Walk` what its variables hold after so many, and `RunConfigFlow` what it
returns; an independent definition by trails (`Renderings`, `Cycles`) says what
a flow yields. Every
runner may wait, as callers may bring their own.

### PackValidators

The three native validators and the WASM component as four steps in any order
over one pack, each from its own reading of the manifest. Texts are reduced to
the classes the code tests for.

### InstallRouting

One pass of `build_sink_router` or `start_sources` (`mode`): `List`,
`ListFails` per provider, `Begin` per install in any order (the store is a hash
map), `Read`, `ReadFails` per reference as `resolve` awaits them, `Build`,
`BuildFails`. `Provision` inserts installs at any time, `Emit` sends through
the finished router. `todo` is what the loop over the listed records has left.

In every module an operator commented "Mutant" is a plausible slip in the
definition that follows it. Mutants are not used by the specifications: with
the mutant in the definition's place the run finds the property violated that
`PROJECT.json` pairs it with.

## Runs

| Run | Instance | Shows |
|---|---|---|
| `bus` | five publishes of three tenants: two with one key, one whose tenant and key read alike, one denied, one without a provider; two overlapping providers, four overlapping rules; one retry; a retryable and a fatal error | `OneCallPerKey`, `DuplicateHasHolder`, `MetricsBalance`, `RetryBudget`, `TakenWhereConfigured`, `NoAttemptAfterFatalError`, `PublishReturns`, `ImplementsContract` |
| `subscription` | two good and one malformed event, channel of 2, two redeliveries, both ack modes | `NothingSkipped`, `ReadIsPrefix`, `AckedIsDelivered`, `EventsArrive`, `EndIsSeen`, `DropIsNoticed` |
| `install_sync` | two workers with one pass each, of which one retries once, two installs, limit 2, one webhook write | `PassAccountsForInstalls`, `DiagnosedIsNotSynced`, `FailuresNotOvercounted`, `DegradedAtLimit`, `PassEnds` |
| `install_webhook` | one worker, one install, one webhook write | violated, see Findings |
| `pattern` | all patterns up to 4 of `a b ? *`, all texts up to 4 of `a b` | `AnswersGlob`, `PrefixMatches`, `Terminates` |
| `pattern_star_in_text` | the same with `*` in the text | violated, see Findings |
| `dry_run` | four events, channel of 2, ring of 1, with and without `deliver_existing` | `ReplayThenLive`, `SeenTwiceOnlyInOverlap`, `SubscribeReturns`, `LiveEventsArrive` |
| `bus_subscription` | four events of which two differ in name only (symmetry), four subscribers of which one to a pattern, two tenants, two overlapping providers, three rules, ring of 1, channel of 1 | `ReachesSubscribers`, `SentAsAllowed` |
| `pack_registration` | up to four builder calls over four packs, three override maps and two factories' outcomes | `OverridePrecedence`, `PackEntersWhole` |
| `e2e_packs` | one pack in every combination of providers and fixtures, pairs of odd packs, every flow of up to three nodes; eight sets of options | `FlowsWalkedExactly`, `VerdictEarned`, `ReportAccountsForAll`, `RunEnds` |
| `validators` | packs over all schema references and files, topics and types, entry flows and flows | `VerdictsAgree`, `AcceptedIsSound` |
| `install_routing` | five providers passed in (one twice), four installs of which two share an id, up to three references each | `EveryInstallAnswered`, `DiagnosisNamesTheMissing`, `EmitReachesItsInstall`, `RoutingEnds` |

Why the bounds are enough. A race for a key needs two calls and a third for a
collision; a retry separates the first attempt from the last. A channel of 2
can be empty, partly and completely full while a third event is held. Two
passes over an install make a failure count survive a pass and reach the limit;
two workers make them one after the other, where the second starts alone from
what the first left, or overlapping in every way, where the later writes a
record the earlier has changed; two installs show that one does not hide the
other. A pattern of four characters holds two stars with text between and
behind, so a backtrack to an earlier star would matter. A snapshot of up to
four overflows a channel of two, and a ring of one makes lag a matter of two
events. In `BusSubscription` one topic is served by both providers, one rule
denies what a later one allows, and one subscriber asks for what one tenant
published and another may not see; two events at one provider are more than a
ring of one keeps and more than a channel of one takes before anybody reads.
Four builder calls are enough for a provider
from a pack before and after an override and a second override. Two packs show
that nothing of one is left in the other; a stage that waits before one that
does not and the reverse are both there (`Waits`). Flows of three nodes have
every cycle shape with a tail; the bound of nodes + 4 is crossed by the cyclic
ones. `CHECK_DEADLOCK FALSE` is set in all runs: calls return, events run out
and passes are bounded, so every one of these systems may really come to rest.

### Fairness

- `EventBus`: weak fairness of each call's `Progress`: a call is awaited or
  spawned on tokio, timers fire, and a provider answers (with success only once
  it has taken the event, with an error at any time). Nothing forces a provider to take an event,
  and a drop is never forced.
- `RunnerSubscription`: weak fairness of the polling task and of the reader
  while it has the handle. Errors of the client, redelivery and dropping the
  handle are not forced.
- `InstallSync`: weak fairness of each worker's `Progress`: `sync_all` is
  awaited and drivers, stores and sleeps answer.
- `DryRunSubscription`: weak fairness of subscribe with its forwarder, and of
  the reader. Broadcasts are not forced.
- `PatternMatch`: weak fairness of the loop.
- `E2ePack`: weak fairness of the harness and of the clock (`Expire`). Neither
  a runner's wait nor a live command is ever forced to end, so `RunEnds` rests
  on the timeout alone.
- `InstallRouting`: weak fairness of the pass, which is awaited, with stores
  and factories that answer, if only with an error.

### Findings

1. `pattern_star_in_text`: `simple_match` tests for equal bytes before it
   tests for a star (pattern.rs:20), so a star in the pattern that meets a star
   in the text is used up as a literal; `*a` does not match `**a`, against the
   comment at pattern.rs:3.
2. `install_webhook`: `sync_install` writes back the record as it was listed
   (install.rs:484), so webhook state stored meanwhile is lost, against
   `docs/migrations/GE-PR-02.md:9`.

Worth knowing:

- `subscribe("topic.*", ..)`, the usage in `README.md:57`, is routed by the text
  `topic.*` to the first provider whose patterns match that text (bus.rs:130).
  Events on topics the pattern matches that another provider serves never
  arrive; `ReachesSubscribers` promises the others (`Covers`).
- `?` takes a byte (pattern.rs:20), so it matches no character outside ASCII.
- The strategy `fixed` of `README.md:7` multiplies the base with the number of
  the attempt (backoff.rs:47): a linear backoff.
- An annotated `max_retries` is cut to 32 bits (bus.rs:458).
- A failed or dropped publish keeps its idempotency key, so a repeated publish
  is answered `Duplicate` although nothing was delivered (`DuplicateHasHolder`
  says "admitted", not "delivered").
- A dry-run subscribe with `deliver_existing` never returns when more events
  exist than the channel holds (`SubscribeReturns` excludes it). Its
  subscriptions ignore topic and tenant: they get all events of the provider.
- An event published while `subscribe` runs may be missed
  (`ReachesSubscribers` starts where `subscribe` returns).
- `with_overrides` replaces what packs before it had annotated, and the
  annotations of a later pack with the same provider name are ignored; one
  name has one set of overrides for all its registrations.
- A live command that hangs is beyond the timeout of its pack, and a deadline
  that passes during commands never fires if no later stage waits.
- An entry flow that is missing is reported by the native validators only if
  some flow looks like a handler; the component reports it otherwise, if it
  takes the pack for its own, which a reference to a missing event schema does
  not make it do.
- A configuration reference whose text contains "secret" is diagnosed as
  `MissingSecret`; for an install `MalformedInstall` is never given.
- Of a configured multiplier only whether it is above 1 is used.

## Theorems

All are theorems of `Spec` (`MatchSpec`, `HostSpec`), without fairness, for every value of the constants.

**EventBusProofs** assumes `EventAssumption` (tenants contain no separator) and
`ConfigAssumption` (types). The inductive invariant has three parts:
`KeyInv` (types, control, `KeysHeld`: admitted keyed calls and stored keys are
one to one, `Gate`: only admitted calls reach a provider), `RouteInv` (a routed
call passed the ACL and has the first serving registration), and `RetryInv`
(what each stage of the loop knows about attempts, copies and the last error).
`OneCallPerKey` alone is not inductive: it says nothing of a call that has
claimed its key and not yet reached the provider. `ComposedKeyInjective` shows
that the first separator of a composed key ends the tenant, which is where the
assumption on tenants is needed. From the invariant follow `TypeCorrect`,
`KeyExclusion`, `DuplicateExplained`, `BudgetKept`, `FatalErrorsEndRetries`,
`ConfigurationKept`, and `Refinement`: every step of the bus is a step or a
stutter of `PublishContract`. `MetricsAccount` has an invariant of its own,
`MetricsInv`: two equations over the counters and the calls that are between
two of them, which are finitely many at any time however many calls there are.

**RunnerSubscriptionProofs** assumes `SubscriptionAssumption`. `NothingSkipped`
speaks only of an open handle and a running task, so the invariant says more:
`HandedIsDelivered`, what was handed out always starts with what was delivered
(read or in the channel) followed by a rest, and the rest is the held event
while both live. Theorems `TypeCorrect`, `NothingIsSkipped`, `ReadsAreAPrefix`,
`AcksFollowDelivery`.

**InstallSyncProofs** assumes `SyncAssumption`. `DegradedAtLimit` holds for any
overlap: every record, stored or listed, is marked consistently
(`RecordsMarked`), and every write is made from such a record. So does
`FailuresNotOvercounted`, which is not inductive: a stale record may be written
back at any time. `CountsCovered` says of the records the workers still hold
that the count a failure would be written from, with a failure about to be
written (`Debt`), is covered by the streak, and that nothing is ahead of the
remote service. The two properties of a pass that is alone need `OthersIdle`
(whoever is alone is) and `SoloInv`: the state it is about to store is the
newest, what it has not come to is still as listed, and what it is through with
is synced or diagnosed. `CurrentIsBegun` keeps the install in hand apart from
those to come. Theorems `TypeCorrect`,
`DegradedIffLimit`, `PassAccounts`, `DiagnosticsAreFailures`, `CountsAreEarned`.

**PackRegistrationProofs** assumes `RegistrationAssumption`. `PackEntersWhole`
speaks of the bus that was built, so the invariant speaks of the packs that are
being loaded: `WholeSoFar` (what the loop is past has entered), `HalfBridge`
(between the two bridges of a provider the first is there), `Position` and
`InOrder` for where the loop is, and `BusCopies`, which carries them over
`build`. `OverridePrecedence` needs two more: `MapInv`, the override map holds
for each name what the calls so far put in force, where the pack being loaded
counts from the moment the loop enters its annotation for that name
(`Unreached`), and `SettingsInv`, until `build` a registration has the settings
it came with. What is in force is defined over the whole history, so a lemma
for each kind of call says how one more call changes it. Theorems
`TypeCorrect`, `PacksEnterWhole`, `OverridesInForce`.

The same module holds the theorems about `PackValidators`, which are about its
`HostSpec` and assume `ValidatorsAssumption` (manifests have their types, and
the classes of file names and flow ids are subsets of them). Both properties
speak of the end, so the invariant `HostInv` says what the two lists hold on
the way: exactly the findings of the validators that have run and that apply
(`FindingsExact`). Lists of findings are flattened lists of lists, a recursive
function; that it exists is `FlatteningExists`, what it holds is `FlattenHolds`,
and `SeenExists` is the same for the entry flows, all by least counterexamples.
A lemma for each validator (`HandlerFlowFinds`, `SchemaFinds`, ...) then says
which diagnostics are among its findings, so that the rest is about sets. The
two topic tests, which were written apart, are one (`TopicTestsAgree`).
Theorems `FindingsExact`, `ValidatorsAgree`, `AcceptedPacksSound`.

**BusSubscriptionProofs** assumes `BusAssumption`. `FirstIsLeast` gives the
first matching rule and registration from well-foundedness; `Decided` says that
the rule a property calls decisive is the one the ACL asks. The invariant
relates three places an event is in: what was taken is in the list of its
provider (`TakenInv`), what was there before a subscribe is in a handle that
asked for it (`Replayed`), and what was broadcast since it attached is in it or
on its way there, until it lags (`Sent`); `History` ties the history variables to the state, and
`StartedInv` and `OnlyTaken` say that nothing got there past the ACL. A
subscriber and a publisher of one topic meet because both are routed by one
function. Theorems `TypeCorrect`, `SubscribersReached`, `AclKept`.

The same module holds the theorems about `PatternMatch`, on which topics and
rules rest; they are about its `MatchSpec`. `Splits` says that cuts split the
beginning of a text into what the beginning of a pattern stands for. `SoundInv`: the consumed part is split
(`Consumed`), and so is what stands before the last star (`BeforeStar`), which
is what going back needs; it gives `ConsumedMatches` for all patterns and
texts. `NothingMissed` is why one remembered star is enough: whichever cuts
split the whole text, the cursors have not passed them, and what lies between
the last star and the cursor is as long in the pattern as in the text. It holds
only if no byte of the text is `*`, because the loop compares a star with the
text before it takes it for a wildcard; so `MatcherExact` assumes that, and
`pattern_star_in_text` shows that it must.

**DryRunSubscriptionProofs** assumes `DryRunAssumption`. `ReplayThenLive` is
about a handle that is still there; once it is dropped nothing ties the
channel to what the forwarder goes on reading, so the invariant has `InOrder`:
what was delivered is always the beginning of the replayed part followed by the
live part. With `Once` (no event is in a list twice) it gives
`SeenTwiceOnlyInOverlap`: equal events at two places are one from each part.
`Control` says that nothing is live before the forwarder attached. Theorems
`TypeCorrect`, `ReplayComesFirst`, `OverlapOnlyRepeats`.

**InstallRoutingProofs** assumes `RoutingAssumption`. The invariant counts: an
install was listed as often as it was started or diagnosed, and once more while
it is `Owed`, that is still in `todo` or in hand (`Counted`); `at` is one more
than the providers listed or diagnosed while the pass is about to list, and as
many while it is at work (`Placed`). Both need that a diagnostic raises one
count by one and no other (`Diagnosed`), which uses that no install id is
`None` and that keys with equal parts are equal. `Routed` says that the router
holds under each key what was built under it, and `Emitted` that events go
through the finished router. Theorems `AllAnswered`, `EmitsAreRouted`,
`CodesAreRight`.

**E2ePackProofs** assumes `HarnessAssumption` (packs are a sequence, options and
packs have their types). Reports alone say too little of the pack in hand, so
`PackInv` says of the pack that every stage it is past was skipped because it
did not apply, or passed and holds what the pack's own requirements ask of it,
and that requirements read for an earlier pack are not in use any more; `Loop`
ties the number of reports to the pack in hand. `ReportInv` and `SummaryInv`
are then a matter of the step that pushes a report. Theorems `TypeCorrect`,
`VerdictsEarned`, `AllAccountedFor`; they use nothing about what flows yield.

`FlowsAreWalked`, in the same module, is about `ConfigFlow` and needs no
invariant but the type of the packs. The walk is a recursive function, so the
first lemma, `WalkIsWalk`, shows that it exists and that every turn follows
from the one before (`IsWalk`); like all inductions here it takes the least
counterexample, from well-foundedness. Then: a walk that goes on has always
gone on (`WentOn`), one that has returned stays (`HasReturned`); what it knows
is what its path has asked (`WalkKnows`); from a node seen before it takes the
same way again with no fewer answers (`SameWay`, `RunsOn`), so it ends at the
limit only. A walk through different nodes is a trail (`WalkedTrail`), a trail
is walked (`TrailWalked`), and a walk to the limit visits more nodes than there
are, so one of them twice (`LimitMeansCycle`, by the pigeonhole principle). The
answers given must be fields of the flow's nodes (`Fields`), as a pack's are.

Every safety property of the runs is stated by a theorem. Only model-checked is
all liveness (`PublishReturns`, `EventsArrive`, `EndIsSeen`, `DropIsNoticed`,
`PassEnds`, `Terminates`, `SubscribeReturns`, `LiveEventsArrive`, `RunEnds`,
`RoutingEnds`), which needs fairness and ENABLED.

## Not modelled

Left out are delays between attempts (`delay_for_attempt`, jitter), which
only decide when a retry happens, and `retry_policy_from`, which copies settings;
`validate_publish_input` (emptiness checks on one payload),
parsing and printing (CLIs, spec and configuration loading), OpenTelemetry
handles, adapters and the no-op provider, which forward or drop one call,
`provider_ops`, which only holds types, and test fixtures. They keep no state
that a later step depends on.
