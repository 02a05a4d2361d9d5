--------------------------- MODULE InstallSync ---------------------------
(***************************************************************************)
(* SubscriptionsWorker::sync_all for the installs of one provider          *)
(* (crates/greentic-events-runtime/src/install.rs): list the install       *)
(* records, and for each resolve its values, let the driver bring the      *)
(* subscriptions at the remote service up to date with retries, and write  *)
(* the listed record back with the new state or a failure count.           *)
(*                                                                         *)
(* Workers run concurrently on one store, every await is a point where     *)
(* another actor may act, where the store, the resolver or the driver may  *)
(* fail, and where the run may be cut short.  A state the driver returns   *)
(* is the number of the sync that made it.                                 *)
(***************************************************************************)
EXTENDS Naturals

CONSTANTS
  Workers,     \* runs of sync_all that may overlap
  Installs,    \* installs of the provider
  MaxRetries,  \* RetryPolicy.max_retries of each worker
  MaxFailures, \* SubscriptionsWorker.max_failures
  MaxPasses,   \* bound on the passes of a worker
  MaxWebhooks  \* bound on the writes of webhook_state to each install

ASSUME SyncAssumption ==
  /\ Installs # {}
  /\ MaxRetries \in [Workers -> Nat]
  /\ MaxFailures \in Nat
  /\ MaxPasses \in Nat
  /\ MaxWebhooks \in [Installs -> Nat]

VARIABLES
  store,    \* the install store: a record for each install
  remote,   \* the number of the last sync of an install at the remote service
  streak,   \* history: syncs of an install that failed since one succeeded
  pc,       \* where a worker is
  listed,   \* the records list_installs returned to a worker
  todo,     \* installs of this pass it has not begun
  current,  \* the install it works on
  attempt,  \* its loop variable
  state,    \* the state the driver returned to it
  diags,    \* installs it has pushed a diagnostic for in this pass
  passes,   \* passes it has started
  alone     \* history: no other pass has run since its own began

vars == <<store, remote, streak, pc, listed, todo, current, attempt, state,
          diags, passes, alone>>

world == <<store, remote, streak>>

\* The fields of ProviderInstallRecord that a sync writes, and one that it
\* only carries along.
InstallRecord ==
  [subs : Nat, webhook : Nat, failures : Nat, degraded : BOOLEAN,
   lastSync : {"never", "synced", "unknown"}]

Stages == {"idle", "installs", "driver", "sleeping", "storeOk", "storeFailure"}

TypeOK ==
  /\ store \in [Installs -> InstallRecord]
  /\ remote \in [Installs -> Nat]
  /\ streak \in [Installs -> Nat]
  /\ pc \in [Workers -> Stages]
  /\ listed \in [Workers -> [Installs -> InstallRecord]]
  /\ todo \in [Workers -> SUBSET Installs]
  /\ current \in [Workers -> Installs]
  /\ attempt \in [Workers -> Nat]
  /\ \A w \in Workers : attempt[w] <= MaxRetries[w]
  /\ state \in [Workers -> Nat]
  /\ diags \in [Workers -> SUBSET Installs]
  /\ passes \in [Workers -> 0 .. MaxPasses]
  /\ alone \in [Workers -> BOOLEAN]

NewRecord ==
  [subs |-> 0, webhook |-> 0, failures |-> 0, degraded |-> FALSE,
   lastSync |-> "never"]

SomeInstall == CHOOSE i \in Installs : TRUE

Init ==
  /\ store = [i \in Installs |-> NewRecord]
  /\ remote = [i \in Installs |-> 0]
  /\ streak = [i \in Installs |-> 0]
  /\ pc = [w \in Workers |-> "idle"]
  /\ listed = [w \in Workers |-> store]
  /\ todo = [w \in Workers |-> {}]
  /\ current = [w \in Workers |-> SomeInstall]
  /\ attempt = [w \in Workers |-> 0]
  /\ state = [w \in Workers |-> 0]
  /\ diags = [w \in Workers |-> {}]
  /\ passes = [w \in Workers |-> 0]
  /\ alone = [w \in Workers |-> FALSE]

---------------------------------------------------------------------------
(* What is written back: always the listed record with some fields changed *)

\* Mutant: the failure count survives a success.
SyncedCounting(record, subs) ==
  [record EXCEPT !.subs = subs, !.lastSync = "synced", !.degraded = FALSE]

\* sync_install on success, with update_subscription_metadata(.., 0, false)
Synced(record, subs) ==
  [record EXCEPT !.subs = subs, !.lastSync = "synced",
                 !.failures = 0, !.degraded = FALSE]

\* Mutant: the count before this failure decides.
FailedLate(record) ==
  [record EXCEPT !.failures = @ + 1, !.lastSync = "unknown",
                 !.degraded = @ \/ record.failures >= MaxFailures]

\* increment_failure_metadata
Failed(record) ==
  [record EXCEPT !.failures = @ + 1, !.lastSync = "unknown",
                 !.degraded = @ \/ record.failures + 1 >= MaxFailures]

Goto(w, stage) == pc' = [pc EXCEPT ![w] = stage]

\* sync_install has returned or is left, and with it what it kept
LeaveInstall(w) ==
  /\ current' = [current EXCEPT ![w] = SomeInstall]
  /\ attempt' = [attempt EXCEPT ![w] = 0]
  /\ state' = [state EXCEPT ![w] = 0]

\* so has sync_all
Leave(w) ==
  /\ Goto(w, "idle")
  /\ LeaveInstall(w)
  /\ listed' = [listed EXCEPT ![w] = [i \in Installs |-> NewRecord]]
  /\ todo' = [todo EXCEPT ![w] = {}]
  /\ diags' = [diags EXCEPT ![w] = {}]
  /\ alone' = [alone EXCEPT ![w] = FALSE]

---------------------------------------------------------------------------
(* sync_all *)

StartPass(w) ==
  /\ pc[w] = "idle"
  /\ passes[w] < MaxPasses
  /\ passes' = [passes EXCEPT ![w] = @ + 1]

\* list_installs returns the records: the pass works on this copy, and any
\* other pass is no longer alone
List(w) ==
  /\ StartPass(w)
  /\ listed' = [listed EXCEPT ![w] = store]
  /\ todo' = [todo EXCEPT ![w] = Installs]
  /\ Goto(w, "installs")
  /\ alone' = [v \in Workers |-> v = w /\ \A u \in Workers \ {w} : pc[u] = "idle"]
  /\ diags' = [diags EXCEPT ![w] = {}]
  /\ UNCHANGED <<world, current, attempt, state>>

\* list_installs fails: one diagnostic without an install, next provider
ListFails(w) ==
  /\ StartPass(w)
  /\ UNCHANGED <<world, pc, listed, todo, current, attempt, state, diags, alone>>

\* the next record resolves, sync_install calls the driver
Begin(w, i) ==
  /\ pc[w] = "installs"
  /\ i \in todo[w]
  /\ todo' = [todo EXCEPT ![w] = @ \ {i}]
  /\ current' = [current EXCEPT ![w] = i]
  /\ attempt' = [attempt EXCEPT ![w] = 0]
  /\ Goto(w, "driver")
  /\ UNCHANGED <<world, listed, state, diags, passes, alone>>

\* Mutant: an error of one install ends the pass.
ResolveFailsPass(w, i) ==
  /\ pc[w] = "installs"
  /\ i \in todo[w]
  /\ todo' = [todo EXCEPT ![w] = {}]
  /\ diags' = [diags EXCEPT ![w] = @ \cup {i}]
  /\ UNCHANGED <<world, pc, listed, current, attempt, state, passes, alone>>

\* the next record does not resolve: no driver call, no failure counted
ResolveFails(w, i) ==
  /\ pc[w] = "installs"
  /\ i \in todo[w]
  /\ todo' = [todo EXCEPT ![w] = @ \ {i}]
  /\ diags' = [diags EXCEPT ![w] = @ \cup {i}]
  /\ UNCHANGED <<world, pc, listed, current, attempt, state, passes, alone>>

\* the pass is over, its diagnostics are returned
Finish(w) ==
  /\ pc[w] = "installs"
  /\ todo[w] = {}
  /\ Leave(w)
  /\ UNCHANGED <<world, passes>>

\* sync_subscriptions succeeds: the remote service has new subscriptions
DriverSucceeds(w) ==
  /\ pc[w] = "driver"
  /\ remote' = [remote EXCEPT ![current[w]] = @ + 1]
  /\ state' = [state EXCEPT ![w] = remote[current[w]] + 1]
  /\ streak' = [streak EXCEPT ![current[w]] = 0]
  /\ Goto(w, "storeOk")
  /\ UNCHANGED <<store, listed, todo, current, attempt, diags, passes, alone>>

\* The driver answers with an error; the remote service may have changed
\* before it did.
FailedSync(w) ==
  \/ UNCHANGED remote
  \/ remote' = [remote EXCEPT ![current[w]] = @ + 1]

\* sync_subscriptions fails with attempts left
DriverFails(w) ==
  /\ pc[w] = "driver"
  /\ attempt[w] < MaxRetries[w]
  /\ FailedSync(w)
  /\ Goto(w, "sleeping")
  /\ UNCHANGED <<store, streak, listed, todo, current, attempt, state, diags, passes, alone>>

\* Mutant: the loop variable is not advanced.
RetryForever(w) ==
  /\ pc[w] = "sleeping"
  /\ Goto(w, "driver")
  /\ UNCHANGED <<world, listed, todo, current, attempt, state, diags, passes, alone>>

Retry(w) ==
  /\ pc[w] = "sleeping"
  /\ attempt' = [attempt EXCEPT ![w] = @ + 1]
  /\ Goto(w, "driver")
  /\ UNCHANGED <<world, listed, todo, current, state, diags, passes, alone>>

\* sync_subscriptions fails for the last time
DriverGivesUp(w) ==
  /\ pc[w] = "driver"
  /\ attempt[w] = MaxRetries[w]
  /\ FailedSync(w)
  /\ streak' = [streak EXCEPT ![current[w]] = @ + 1]
  /\ Goto(w, "storeFailure")
  /\ UNCHANGED <<store, listed, todo, current, attempt, state, diags, passes, alone>>

Write(w, record) ==
  /\ store' = [store EXCEPT ![current[w]] = record]
  /\ Goto(w, "installs")
  /\ LeaveInstall(w)
  /\ UNCHANGED <<remote, streak, listed, todo, passes, alone>>

\* Mutant: sync_install returns the error of the previous attempt after all.
StoreOkDiagnosed(w) ==
  /\ pc[w] = "storeOk"
  /\ Write(w, Synced(listed[w][current[w]], state[w]))
  /\ diags' = [diags EXCEPT ![w] = @ \cup {current[w]}]

\* update_install after a success
StoreOk(w) ==
  /\ pc[w] = "storeOk"
  /\ Write(w, Synced(listed[w][current[w]], state[w]))
  /\ UNCHANGED diags

\* update_install after a failure; the driver's error becomes the diagnostic
StoreFailure(w) ==
  /\ pc[w] = "storeFailure"
  /\ Write(w, Failed(listed[w][current[w]]))
  /\ diags' = [diags EXCEPT ![w] = @ \cup {current[w]}]

\* update_install fails: after a success its error is the diagnostic, after
\* a failure it is ignored and the driver's error is
StoreFails(w) ==
  /\ pc[w] \in {"storeOk", "storeFailure"}
  /\ Goto(w, "installs")
  /\ LeaveInstall(w)
  /\ diags' = [diags EXCEPT ![w] = @ \cup {current[w]}]
  /\ UNCHANGED <<world, listed, todo, passes, alone>>

\* The process stops or the future of sync_all is dropped in mid-pass; what
\* the store and the remote service have stays.
Interrupt(w) ==
  /\ pc[w] # "idle"
  /\ Leave(w)
  /\ UNCHANGED <<world, passes>>

\* Provisioning writes webhook_state to the record (external to this crate).
WriteWebhook(i) ==
  /\ store[i].webhook < MaxWebhooks[i]
  /\ store' = [store EXCEPT ![i].webhook = @ + 1]
  /\ UNCHANGED <<remote, streak, pc, listed, todo, current, attempt, state,
                 diags, passes, alone>>

---------------------------------------------------------------------------
Progress(w) ==
  \/ List(w) \/ ListFails(w) \/ Finish(w)
  \/ \E i \in Installs : Begin(w, i) \/ ResolveFails(w, i)
  \/ DriverSucceeds(w) \/ DriverFails(w) \/ Retry(w) \/ DriverGivesUp(w)
  \/ StoreOk(w) \/ StoreFailure(w) \/ StoreFails(w)

Next ==
  \/ \E w \in Workers : Progress(w) \/ Interrupt(w)
  \/ \E i \in Installs : WriteWebhook(i)

Spec == Init /\ [][Next]_vars

\* A pass is awaited by its caller; stores and drivers answer.
FairSpec == Spec /\ \A w \in Workers : WF_vars(Progress(w))

---------------------------------------------------------------------------
(* Properties *)

\* Installs a pass is through with.
Done(w) ==
  IF pc[w] = "installs" THEN Installs \ todo[w]
  ELSE IF pc[w] = "idle" THEN {}
  ELSE Installs \ (todo[w] \cup {current[w]})

\* While no other pass runs beside it, an install a pass is through with and
\* has no diagnostic for shows the latest sync of the remote service and a
\* clean count: an install that does not resolve, a driver or a store that
\* fails never hides another install.
PassAccountsForInstalls ==
  \A w \in Workers : alone[w] =>
    \A i \in Done(w) \ diags[w] :
      /\ store[i].lastSync = "synced"
      /\ store[i].subs = remote[i]
      /\ store[i].failures = 0 /\ ~store[i].degraded

\* While no other pass runs beside it, an install with a diagnostic still
\* shows the state it was listed with: an error is only reported when nothing
\* new was recorded.
DiagnosedIsNotSynced ==
  \A w \in Workers : alone[w] =>
    \A i \in Done(w) \cap diags[w] : store[i].subs = listed[w][i].subs

\* The recorded count never exceeds the number of syncs that failed in a row,
\* unless the last success is not recorded, also when passes overlap and
\* write stale records over newer ones.
FailuresNotOvercounted ==
  \A i \in Installs : store[i].subs = remote[i] => store[i].failures <= streak[i]

\* The degraded mark says exactly that the count is not zero and has reached
\* the limit, whatever is written over what.  (A limit of zero, which
\* with_max_failures accepts, marks an install at its first failure.)
DegradedAtLimit ==
  \A i \in Installs :
    store[i].degraded <=> store[i].failures > 0 /\ store[i].failures >= MaxFailures

\* Every pass ends, however often the driver and the store fail.
PassEnds == \A w \in Workers : pc[w] # "idle" ~> pc[w] = "idle"

\* What docs/migrations/GE-PR-02.md says: webhook state is persisted in the
\* install record over time, so no later step takes it back.
WebhookStatePersists ==
  [][\A i \in Installs : store'[i].webhook >= store[i].webhook]_vars

=========================================================================
