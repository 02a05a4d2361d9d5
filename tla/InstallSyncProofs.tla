------------------------ MODULE InstallSyncProofs ------------------------
(***************************************************************************)
(* Theorems about InstallSync for every set of workers and installs, every *)
(* retry budget and every failure limit.                                   *)
(***************************************************************************)
EXTENDS InstallSync, TLAPS

---------------------------------------------------------------------------
(* The records a pass writes *)

\* The degraded mark of a record agrees with its failure count, which has
\* to be above zero also where the limit is not.
Marked(record) ==
  record.degraded <=> record.failures > 0 /\ record.failures >= MaxFailures

\* What a success writes is a well marked record, whatever was listed.
LEMMA SyncedIsMarked ==
  ASSUME NEW record \in InstallRecord, NEW subs \in Nat
  PROVE  Synced(record, subs) \in InstallRecord /\ Marked(Synced(record, subs))
<1> DEFINE r == Synced(record, subs)
<1>1. r \in InstallRecord
  BY DEF Synced, InstallRecord
<1>2. r.failures = 0 /\ r.degraded = FALSE
  BY DEF Synced, InstallRecord
<1> HIDE DEF r
<1>3. ~(r.failures > 0) /\ ~r.degraded
  BY <1>2
<1>4. Marked(r)
  BY <1>3 DEF Marked
<1> QED
  BY <1>1, <1>4 DEF r

\* What a failure writes, field by field.
LEMMA FailedWrites ==
  ASSUME NEW record \in InstallRecord
  PROVE  /\ Failed(record) \in InstallRecord
         /\ Failed(record).failures = record.failures + 1
         /\ Failed(record).degraded
              <=> record.degraded \/ record.failures + 1 >= MaxFailures
         /\ Failed(record).subs = record.subs
<1> DEFINE n == record.failures + 1
           mark == record.degraded \/ record.failures + 1 >= MaxFailures
<1>1. record.failures \in Nat /\ record.degraded \in BOOLEAN
  BY DEF InstallRecord
<1>2. Failed(record) = [record EXCEPT !.failures = n, !.lastSync = "unknown",
                                      !.degraded = mark]
  BY Zenon DEF Failed
<1>3. n \in Nat /\ mark \in BOOLEAN
  BY <1>1
<1>4. /\ Failed(record) \in InstallRecord /\ Failed(record).failures = n
      /\ Failed(record).degraded = mark /\ Failed(record).subs = record.subs
  <2> DEFINE r == Failed(record)
  <2> SUFFICES /\ r \in InstallRecord /\ r.failures = n
               /\ r.degraded = mark /\ r.subs = record.subs
    OBVIOUS
  <2>1. r = [record EXCEPT !.failures = n, !.lastSync = "unknown",
                           !.degraded = mark]
    BY <1>2
  <2> HIDE DEF n, mark, r
  <2> QED
    BY <2>1, <1>3 DEF InstallRecord
<1> QED
  BY <1>4

\* A write of webhook_state leaves what a sync keeps alone.
LEMMA WebhookWritten ==
  ASSUME NEW record \in InstallRecord
  PROVE  LET r == [record EXCEPT !.webhook = @ + 1] IN
         /\ r \in InstallRecord
         /\ r.failures = record.failures /\ r.degraded = record.degraded
         /\ r.subs = record.subs /\ r.lastSync = record.lastSync
<1>1. record.webhook + 1 \in Nat
  BY DEF InstallRecord
<1> QED
  BY <1>1 DEF InstallRecord

\* What a failure writes is well marked if what was listed is.
LEMMA FailedIsMarked ==
  ASSUME NEW record \in InstallRecord, Marked(record)
  PROVE  Failed(record) \in InstallRecord /\ Marked(Failed(record))
<1>1. record.failures \in Nat
  BY DEF InstallRecord
<1>2. /\ record.failures >= MaxFailures => record.failures + 1 >= MaxFailures
      /\ record.failures + 1 > 0
  BY <1>1, SyncAssumption DEF SyncAssumption
<1> QED
  BY <1>2, FailedWrites DEF Marked

---------------------------------------------------------------------------
(* Types and the retry budget *)

\* A worker that sleeps has an attempt left.
SleepersHaveBudget ==
  \A w \in Workers : pc[w] = "sleeping" => attempt[w] < MaxRetries[w]

Typed == TypeOK /\ SleepersHaveBudget

LEMMA SomeInstallIsOne == SomeInstall \in Installs
BY SyncAssumption DEF SyncAssumption, SomeInstall

LEMMA NewRecordTyped == [i \in Installs |-> NewRecord] \in [Installs -> InstallRecord]
<1>1. NewRecord \in InstallRecord
  BY DEF NewRecord, InstallRecord
<1> QED
  BY <1>1

LEMMA InitTyped == Init => Typed
BY SyncAssumption, SomeInstallIsOne, NewRecordTyped
   DEF Init, Typed, SleepersHaveBudget, TypeOK, SyncAssumption, Stages

LEMMA FailedSyncTyped ==
  ASSUME TypeOK, NEW w \in Workers, FailedSync(w)
  PROVE  remote' \in [Installs -> Nat]
<1>1. remote \in [Installs -> Nat] /\ current[w] \in Installs
  BY DEF TypeOK
<1>2. remote[current[w]] + 1 \in Nat
  BY <1>1
<1> QED
  BY <1>1, <1>2 DEF FailedSync

\* What sync_all and sync_install keep keeps its type when they are left.
LEMMA LeaveInstallTyped ==
  ASSUME TypeOK, NEW w \in Workers, LeaveInstall(w)
  PROVE  /\ current' \in [Workers -> Installs]
         /\ attempt' \in [Workers -> Nat]
         /\ \A v \in Workers : attempt'[v] <= MaxRetries[v]
         /\ \A v \in Workers : v # w => attempt'[v] = attempt[v]
         /\ state' \in [Workers -> Nat]
<1>1. current' \in [Workers -> Installs]
  BY SomeInstallIsOne DEF LeaveInstall, TypeOK
<1>2. /\ attempt \in [Workers -> Nat] /\ \A v \in Workers : attempt[v] <= MaxRetries[v]
      /\ attempt' = [attempt EXCEPT ![w] = 0]
  BY DEF LeaveInstall, TypeOK
<1>3. state' \in [Workers -> Nat]
  BY DEF LeaveInstall, TypeOK
<1>4. \A v \in Workers : v # w => attempt'[v] = attempt[v]
  BY <1>2
<1>5. attempt'[w] = 0 /\ 0 <= MaxRetries[w]
  <2>1. MaxRetries[w] \in Nat
    BY SyncAssumption DEF SyncAssumption
  <2> QED
    BY <1>2, <2>1
<1>6. \A v \in Workers : attempt'[v] <= MaxRetries[v]
  BY <1>2, <1>4, <1>5
<1>7. attempt' \in [Workers -> Nat]
  BY <1>2
<1> QED
  BY <1>1, <1>3, <1>4, <1>6, <1>7

LEMMA LeaveTyped ==
  ASSUME Typed, NEW w \in Workers, Leave(w), UNCHANGED <<world, passes>>
  PROVE  Typed'
<1>1. /\ current' \in [Workers -> Installs]
      /\ attempt' \in [Workers -> Nat]
      /\ \A v \in Workers : attempt'[v] <= MaxRetries[v]
      /\ \A v \in Workers : v # w => attempt'[v] = attempt[v]
      /\ state' \in [Workers -> Nat]
  BY LeaveInstallTyped DEF Leave, Typed
<1>2. listed' \in [Workers -> [Installs -> InstallRecord]]
  BY NewRecordTyped DEF Leave, Typed, TypeOK
<1>3. pc' \in [Workers -> Stages] /\ pc'[w] = "idle"
      /\ \A v \in Workers : v # w => pc'[v] = pc[v]
  BY DEF Leave, Goto, Typed, TypeOK, Stages
<1>4. /\ todo' \in [Workers -> SUBSET Installs] /\ diags' \in [Workers -> SUBSET Installs]
      /\ alone' \in [Workers -> BOOLEAN]
  BY DEF Leave, Typed, TypeOK
<1>5. TypeOK'
  BY <1>1, <1>2, <1>3, <1>4 DEF Typed, TypeOK, world
<1>6. SleepersHaveBudget'
  BY <1>1, <1>3 DEF Typed, SleepersHaveBudget
<1> QED
  BY <1>5, <1>6 DEF Typed

LEMMA WriteTyped ==
  ASSUME Typed, NEW w \in Workers, NEW record \in InstallRecord, Write(w, record),
         diags' \in [Workers -> SUBSET Installs]
  PROVE  Typed'
<1>1. /\ current' \in [Workers -> Installs]
      /\ attempt' \in [Workers -> Nat]
      /\ \A v \in Workers : attempt'[v] <= MaxRetries[v]
      /\ \A v \in Workers : v # w => attempt'[v] = attempt[v]
      /\ state' \in [Workers -> Nat]
  BY LeaveInstallTyped DEF Write, Typed
<1>2. store' \in [Installs -> InstallRecord]
  BY DEF Write, Typed, TypeOK
<1>3. pc' \in [Workers -> Stages] /\ pc'[w] = "installs"
      /\ \A v \in Workers : v # w => pc'[v] = pc[v]
  BY DEF Write, Goto, Typed, TypeOK, Stages
<1>4. TypeOK'
  BY <1>1, <1>2, <1>3 DEF Write, Typed, TypeOK
<1>5. SleepersHaveBudget'
  BY <1>1, <1>3 DEF Typed, SleepersHaveBudget
<1> QED
  BY <1>4, <1>5 DEF Typed

LEMMA StepTyped == Typed /\ [Next]_vars => Typed'
<1> SUFFICES ASSUME Typed, [Next]_vars
             PROVE  Typed'
  OBVIOUS
<1> USE SyncAssumption DEF Typed, SleepersHaveBudget, SyncAssumption, world
<1>1. ASSUME NEW w \in Workers, List(w)
      PROVE  Typed'
  BY <1>1 DEF List, StartPass, Goto, TypeOK, Stages
<1>2. ASSUME NEW w \in Workers, ListFails(w)
      PROVE  Typed'
  BY <1>2 DEF ListFails, StartPass, TypeOK
<1>3. ASSUME NEW w \in Workers, NEW i \in Installs, Begin(w, i)
      PROVE  Typed'
  BY <1>3 DEF Begin, Goto, TypeOK, Stages
<1>4. ASSUME NEW w \in Workers, NEW i \in Installs, ResolveFails(w, i)
      PROVE  Typed'
  BY <1>4 DEF ResolveFails, TypeOK
<1>5. ASSUME NEW w \in Workers, Finish(w) \/ Interrupt(w)
      PROVE  Typed'
  BY <1>5, LeaveTyped DEF Finish, Interrupt
<1>6. ASSUME NEW w \in Workers, DriverSucceeds(w)
      PROVE  Typed'
  BY <1>6 DEF DriverSucceeds, Goto, TypeOK, Stages
<1>7. ASSUME NEW w \in Workers, DriverFails(w)
      PROVE  Typed'
  BY <1>7, FailedSyncTyped DEF DriverFails, Goto, TypeOK, Stages
<1>8. ASSUME NEW w \in Workers, Retry(w)
      PROVE  Typed'
  BY <1>8 DEF Retry, Goto, TypeOK, Stages
<1>9. ASSUME NEW w \in Workers, DriverGivesUp(w)
      PROVE  Typed'
  BY <1>9, FailedSyncTyped DEF DriverGivesUp, Goto, TypeOK, Stages
<1>10. ASSUME NEW w \in Workers, StoreOk(w)
      PROVE  Typed'
  <2>1. Synced(listed[w][current[w]], state[w]) \in InstallRecord
    BY SyncedIsMarked DEF TypeOK
  <2> QED
    BY <1>10, <2>1, WriteTyped DEF StoreOk, TypeOK
<1>11. ASSUME NEW w \in Workers, StoreFailure(w)
      PROVE  Typed'
  <2>1. Failed(listed[w][current[w]]) \in InstallRecord
    BY FailedWrites DEF TypeOK
  <2>2. diags' \in [Workers -> SUBSET Installs]
    BY <1>11 DEF StoreFailure, TypeOK
  <2> QED
    BY <1>11, <2>1, <2>2, WriteTyped DEF StoreFailure
<1>12. ASSUME NEW w \in Workers, StoreFails(w)
      PROVE  Typed'
  BY <1>12, LeaveInstallTyped DEF StoreFails, Goto, TypeOK, Stages
<1>13. ASSUME NEW i \in Installs, WriteWebhook(i)
       PROVE  Typed'
  <2>1. [store[i] EXCEPT !.webhook = @ + 1] \in InstallRecord
    BY WebhookWritten DEF TypeOK
  <2>2. store' = [store EXCEPT ![i] = [store[i] EXCEPT !.webhook = @ + 1]]
    BY <1>13, Zenon DEF WriteWebhook
  <2>3. store' \in [Installs -> InstallRecord]
    BY <2>1, <2>2 DEF TypeOK
  <2> QED
    BY <1>13, <2>3 DEF WriteWebhook, TypeOK
<1>14. CASE UNCHANGED vars
  BY <1>14 DEF vars, TypeOK
<1> QED
  BY <1>1, <1>2, <1>3, <1>4, <1>5, <1>6, <1>7, <1>8, <1>9, <1>10, <1>11,
     <1>12, <1>13, <1>14 DEF Next, Progress

---------------------------------------------------------------------------
(* The invariants *)

\* Every record, stored or listed, is well marked.
RecordsMarked ==
  /\ \A i \in Installs : Marked(store[i])
  /\ \A w \in Workers, i \in Installs : Marked(listed[w][i])

\* The installs a running pass is not through with.
Owed(w) ==
  IF pc[w] = "idle" THEN {}
  ELSE IF pc[w] = "installs" THEN todo[w]
  ELSE todo[w] \cup {current[w]}

\* The install a worker is busy with is none of those it has still to begin.
CurrentIsBegun ==
  \A w \in Workers : pc[w] \notin {"idle", "installs"} => current[w] \notin todo[w]

\* A failure that is still to be written.
Debt(w, i) == IF pc[w] = "storeFailure" /\ i = current[w] THEN 1 ELSE 0

\* The count a failure of an owed install would be written from is covered by
\* the streak, and nothing is ahead of the remote service.
CountsCovered ==
  /\ \A i \in Installs : store[i].subs <= remote[i]
  /\ \A w \in Workers : pc[w] = "storeOk" => state[w] <= remote[current[w]]
  /\ \A w \in Workers : \A i \in Owed(w) :
       /\ listed[w][i].subs <= remote[i]
       /\ listed[w][i].subs = remote[i] =>
            listed[w][i].failures + Debt(w, i) <= streak[i]

\* Whoever is alone is.
OthersIdle ==
  \A w \in Workers : alone[w] => \A v \in Workers \ {w} : pc[v] = "idle"

\* What holds of a pass that is alone.  A state about to be stored is the
\* latest of the remote service; an install the pass is not through with has
\* no diagnostic and is stored as it was listed, as far as subscriptions go;
\* one it is through with is synced, or has a diagnostic and nothing new.
Solo(w) ==
  /\ pc[w] = "storeOk" => state[w] = remote[current[w]]
  /\ \A i \in Owed(w) : i \notin diags[w] /\ store[i].subs = listed[w][i].subs
  /\ \A i \in Done(w) :
       IF i \in diags[w] THEN store[i].subs = listed[w][i].subs
       ELSE /\ store[i].lastSync = "synced" /\ store[i].subs = remote[i]
            /\ store[i].failures = 0 /\ ~store[i].degraded

SoloInv == \A w \in Workers : alone[w] => Solo(w)

---------------------------------------------------------------------------
(* One step *)

LEMMA WebhookKeepsSync ==
  ASSUME TypeOK, NEW i \in Installs, WriteWebhook(i), NEW j \in Installs
  PROVE  /\ store'[j].subs = store[j].subs
         /\ store'[j].failures = store[j].failures
         /\ store'[j].degraded = store[j].degraded
         /\ store'[j].lastSync = store[j].lastSync
<1>1. store' = [store EXCEPT ![i] = [store[i] EXCEPT !.webhook = @ + 1]]
  BY Zenon DEF WriteWebhook
<1> DEFINE r == [store[i] EXCEPT !.webhook = @ + 1]
<1>2. /\ r.failures = store[i].failures /\ r.degraded = store[i].degraded
      /\ r.subs = store[i].subs /\ r.lastSync = store[i].lastSync
  BY WebhookWritten DEF TypeOK
<1> HIDE DEF r
<1>3. store'[j] = IF j = i THEN r ELSE store[j]
  BY <1>1 DEF TypeOK, r
<1> QED
  BY <1>2, <1>3

LEMMA SyncedWrites ==
  ASSUME NEW record \in InstallRecord, NEW subs \in Nat
  PROVE  /\ Synced(record, subs).subs = subs
         /\ Synced(record, subs).failures = 0
         /\ Synced(record, subs).degraded = FALSE
         /\ Synced(record, subs).lastSync = "synced"
BY DEF Synced, InstallRecord

LEMMA FieldTypes ==
  ASSUME TypeOK
  PROVE  /\ \A i \in Installs : /\ store[i].subs \in Nat /\ store[i].failures \in Nat
                              /\ remote[i] \in Nat /\ streak[i] \in Nat
         /\ \A w \in Workers, i \in Installs :
              listed[w][i].subs \in Nat /\ listed[w][i].failures \in Nat
         /\ \A w \in Workers :
              /\ current[w] \in Installs /\ state[w] \in Nat
              /\ todo[w] \subseteq Installs /\ pc[w] \in Stages
BY DEF TypeOK, InstallRecord

\* A worker's step leaves what the others keep alone.
LEMMA OthersKept ==
  ASSUME TypeOK, NEW w \in Workers, Progress(w) \/ Interrupt(w),
         NEW v \in Workers, v # w
  PROVE  /\ pc'[v] = pc[v] /\ listed'[v] = listed[v] /\ todo'[v] = todo[v]
         /\ current'[v] = current[v] /\ state'[v] = state[v] /\ diags'[v] = diags[v]
         /\ ~List(w) => alone'[v] = alone[v]
<1> USE DEF TypeOK, Goto
<1>1. CASE List(w)
  BY <1>1 DEF List, StartPass
<1>2. CASE ListFails(w)
  BY <1>2 DEF ListFails
<1>3. ASSUME NEW i \in Installs, Begin(w, i) PROVE UNCHANGED <<pc[v], listed[v], todo[v], current[v], state[v], diags[v], alone[v]>>
  BY <1>3 DEF Begin
<1>4. ASSUME NEW i \in Installs, ResolveFails(w, i) PROVE UNCHANGED <<pc[v], listed[v], todo[v], current[v], state[v], diags[v], alone[v]>>
  BY <1>4 DEF ResolveFails
<1>5. CASE Finish(w) \/ Interrupt(w)
  BY <1>5 DEF Finish, Interrupt, Leave, LeaveInstall
<1>6. CASE DriverSucceeds(w) \/ DriverFails(w) \/ Retry(w) \/ DriverGivesUp(w)
  BY <1>6 DEF DriverSucceeds, DriverFails, Retry, DriverGivesUp
<1>7. CASE StoreOk(w) \/ StoreFailure(w) \/ StoreFails(w)
  BY <1>7 DEF StoreOk, StoreFailure, StoreFails, Write, LeaveInstall
<1> QED
  BY <1>1, <1>2, <1>3, <1>4, <1>5, <1>6, <1>7 DEF Progress

\* What each step changes, for its worker and install by install.
LEMMA ListEffect ==
  ASSUME TypeOK, NEW w \in Workers, List(w)
  PROVE  /\ pc[w] = "idle" /\ pc'[w] = "installs"
         /\ listed'[w] = store /\ todo'[w] = Installs /\ diags'[w] = {}
         /\ \A v \in Workers :
              alone'[v] <=> v = w /\ \A u \in Workers \ {w} : pc[u] = "idle"
         /\ UNCHANGED world
BY DEF List, StartPass, Goto, TypeOK

LEMMA BeginEffect ==
  ASSUME TypeOK, NEW w \in Workers, NEW i \in Installs, Begin(w, i)
  PROVE  /\ pc[w] = "installs" /\ pc'[w] = "driver" /\ i \in todo[w]
         /\ todo'[w] = todo[w] \ {i} /\ current'[w] = i
         /\ UNCHANGED <<world, listed, state, diags, alone>>
BY DEF Begin, Goto, TypeOK

LEMMA ResolveFailsEffect ==
  ASSUME TypeOK, NEW w \in Workers, NEW i \in Installs, ResolveFails(w, i)
  PROVE  /\ pc[w] = "installs" /\ i \in todo[w]
         /\ todo'[w] = todo[w] \ {i} /\ diags'[w] = diags[w] \cup {i}
         /\ UNCHANGED <<world, pc, listed, current, state, alone>>
BY DEF ResolveFails, TypeOK

LEMMA LeaveEffect ==
  ASSUME TypeOK, NEW w \in Workers, Finish(w) \/ Interrupt(w)
  PROVE  /\ pc[w] # "idle" /\ pc'[w] = "idle" /\ ~alone'[w]
         /\ \A i \in Installs : listed'[w][i] = NewRecord
         /\ UNCHANGED world
BY DEF Finish, Interrupt, Leave, Goto, TypeOK

LEMMA DriverSucceedsEffect ==
  ASSUME TypeOK, NEW w \in Workers, DriverSucceeds(w)
  PROVE  /\ pc[w] = "driver" /\ pc'[w] = "storeOk"
         /\ state'[w] = remote[current[w]] + 1
         /\ \A i \in Installs : remote'[i] = IF i = current[w] THEN remote[i] + 1
                                             ELSE remote[i]
         /\ \A i \in Installs : streak'[i] = IF i = current[w] THEN 0 ELSE streak[i]
         /\ UNCHANGED <<store, listed, todo, current, diags, alone>>
BY DEF DriverSucceeds, Goto, TypeOK

LEMMA FailedSyncEffect ==
  ASSUME TypeOK, NEW w \in Workers, FailedSync(w), NEW i \in Installs
  PROVE  \/ remote'[i] = remote[i]
         \/ i = current[w] /\ remote'[i] = remote[i] + 1
BY DEF FailedSync, TypeOK

LEMMA DriverFailsEffect ==
  ASSUME TypeOK, NEW w \in Workers, DriverFails(w)
  PROVE  /\ pc[w] = "driver" /\ pc'[w] = "sleeping"
         /\ \A i \in Installs : \/ remote'[i] = remote[i]
                                \/ i = current[w] /\ remote'[i] = remote[i] + 1
         /\ UNCHANGED <<store, streak, listed, todo, current, state, diags, alone>>
BY FailedSyncEffect DEF DriverFails, Goto, TypeOK

LEMMA RetryEffect ==
  ASSUME TypeOK, NEW w \in Workers, Retry(w)
  PROVE  /\ pc[w] = "sleeping" /\ pc'[w] = "driver"
         /\ UNCHANGED <<world, listed, todo, current, state, diags, alone>>
BY DEF Retry, Goto, TypeOK

LEMMA DriverGivesUpEffect ==
  ASSUME TypeOK, NEW w \in Workers, DriverGivesUp(w)
  PROVE  /\ pc[w] = "driver" /\ pc'[w] = "storeFailure"
         /\ \A i \in Installs : \/ remote'[i] = remote[i]
                                \/ i = current[w] /\ remote'[i] = remote[i] + 1
         /\ \A i \in Installs : streak'[i] = IF i = current[w] THEN streak[i] + 1
                                             ELSE streak[i]
         /\ UNCHANGED <<store, listed, todo, current, state, diags, alone>>
BY FailedSyncEffect DEF DriverGivesUp, Goto, TypeOK

LEMMA StoreOkEffect ==
  ASSUME TypeOK, NEW w \in Workers, StoreOk(w)
  PROVE  /\ pc[w] = "storeOk" /\ pc'[w] = "installs"
         /\ \A i \in Installs : i # current[w] => store'[i] = store[i]
         /\ store'[current[w]].subs = state[w]
         /\ store'[current[w]].failures = 0
         /\ ~store'[current[w]].degraded
         /\ store'[current[w]].lastSync = "synced"
         /\ UNCHANGED <<remote, streak, listed, todo, diags, alone>>
<1> DEFINE r == Synced(listed[w][current[w]], state[w])
<1>1. /\ r.subs = state[w] /\ r.failures = 0 /\ r.degraded = FALSE
      /\ r.lastSync = "synced"
  <2>1. listed[w][current[w]] \in InstallRecord /\ state[w] \in Nat
    BY DEF TypeOK
  <2> QED
    BY <2>1, SyncedWrites
<1>2. store' = [store EXCEPT ![current[w]] = r]
  BY DEF StoreOk, Write
<1> HIDE DEF r
<1>3. store'[current[w]] = r /\ \A i \in Installs : i # current[w] => store'[i] = store[i]
  BY <1>2 DEF TypeOK
<1> QED
  BY <1>1, <1>3 DEF StoreOk, Write, Goto, TypeOK

LEMMA StoreFailureEffect ==
  ASSUME TypeOK, NEW w \in Workers, StoreFailure(w)
  PROVE  /\ pc[w] = "storeFailure" /\ pc'[w] = "installs"
         /\ \A i \in Installs : i # current[w] => store'[i] = store[i]
         /\ store'[current[w]].subs = listed[w][current[w]].subs
         /\ store'[current[w]].failures = listed[w][current[w]].failures + 1
         /\ diags'[w] = diags[w] \cup {current[w]}
         /\ UNCHANGED <<remote, streak, listed, todo, alone>>
<1> DEFINE r == Failed(listed[w][current[w]])
<1>1. /\ r.subs = listed[w][current[w]].subs
      /\ r.failures = listed[w][current[w]].failures + 1
  BY FailedWrites DEF TypeOK
<1>2. store' = [store EXCEPT ![current[w]] = r]
  BY DEF StoreFailure, Write
<1> HIDE DEF r
<1>3. store'[current[w]] = r /\ \A i \in Installs : i # current[w] => store'[i] = store[i]
  BY <1>2 DEF TypeOK
<1> QED
  BY <1>1, <1>3 DEF StoreFailure, Write, Goto, TypeOK

LEMMA StoreFailsEffect ==
  ASSUME TypeOK, NEW w \in Workers, StoreFails(w)
  PROVE  /\ pc[w] \in {"storeOk", "storeFailure"} /\ pc'[w] = "installs"
         /\ diags'[w] = diags[w] \cup {current[w]}
         /\ UNCHANGED <<world, listed, todo, alone>>
BY DEF StoreFails, Goto, TypeOK

---------------------------------------------------------------------------
(* What holds however many passes overlap *)

LEMMA InitRecordsMarked == Init => RecordsMarked
BY DEF Init, RecordsMarked, Marked, NewRecord

\* Records stay well marked, whoever writes what it listed before.
LEMMA StepRecordsMarked ==
  ASSUME TypeOK, RecordsMarked, [Next]_vars
  PROVE  RecordsMarked'
<1> USE DEF TypeOK, RecordsMarked, world
<1>1. ASSUME NEW w \in Workers, List(w)
      PROVE  RecordsMarked'
  BY <1>1 DEF List
<1>2. ASSUME NEW w \in Workers, ListFails(w)
      PROVE  RecordsMarked'
  BY <1>2 DEF ListFails
<1>3. ASSUME NEW w \in Workers, NEW i \in Installs, Begin(w, i) \/ ResolveFails(w, i)
      PROVE  RecordsMarked'
  BY <1>3 DEF Begin, ResolveFails
<1>4. ASSUME NEW w \in Workers, Finish(w) \/ Interrupt(w)
      PROVE  RecordsMarked'
  <2>1. Marked(NewRecord)
    BY DEF Marked, NewRecord
  <2> QED
    BY <1>4, <2>1, LeaveEffect, OthersKept DEF Progress
<1>5. ASSUME NEW w \in Workers,
             DriverSucceeds(w) \/ DriverFails(w) \/ Retry(w) \/ DriverGivesUp(w)
      PROVE  RecordsMarked'
  BY <1>5 DEF DriverSucceeds, DriverFails, Retry, DriverGivesUp
<1>6. ASSUME NEW w \in Workers, StoreOk(w)
      PROVE  RecordsMarked'
  BY <1>6, SyncedIsMarked DEF StoreOk, Write
<1>7. ASSUME NEW w \in Workers, StoreFailure(w)
      PROVE  RecordsMarked'
  BY <1>7, FailedIsMarked DEF StoreFailure, Write
<1>8. ASSUME NEW w \in Workers, StoreFails(w)
      PROVE  RecordsMarked'
  BY <1>8 DEF StoreFails
<1>9. ASSUME NEW i \in Installs, WriteWebhook(i)
      PROVE  RecordsMarked'
  <2>1. \A j \in Installs : Marked(store'[j])
    BY <1>9, WebhookKeepsSync DEF Marked
  <2> QED
    BY <1>9, <2>1 DEF WriteWebhook
<1>10. CASE UNCHANGED vars
  BY <1>10 DEF vars
<1> QED
  BY <1>1, <1>2, <1>3, <1>4, <1>5, <1>6, <1>7, <1>8, <1>9, <1>10 DEF Next, Progress

\* An install is taken off the list before it is worked on.
LEMMA StepCurrentIsBegun ==
  ASSUME TypeOK, CurrentIsBegun, [Next]_vars
  PROVE  CurrentIsBegun'
<1> USE DEF CurrentIsBegun, world
<1>1. ASSUME NEW w \in Workers, Progress(w) \/ Interrupt(w)
      PROVE  CurrentIsBegun'
  <2>1. ASSUME NEW v \in Workers, v # w
        PROVE  pc'[v] \notin {"idle", "installs"} => current'[v] \notin todo'[v]
    BY <1>1, <2>1, OthersKept
  <2>2. pc'[w] \notin {"idle", "installs"} => current'[w] \notin todo'[w]
    <3>1. CASE List(w)
      BY <3>1, ListEffect
    <3>2. CASE ListFails(w)
      BY <3>2 DEF ListFails
    <3>3. ASSUME NEW i \in Installs, Begin(w, i)
          PROVE  current'[w] \notin todo'[w]
      BY <3>3, BeginEffect
    <3>4. ASSUME NEW i \in Installs, ResolveFails(w, i)
          PROVE  pc'[w] = "installs"
      BY <3>4, ResolveFailsEffect
    <3>5. CASE Finish(w) \/ Interrupt(w)
      BY <3>5, LeaveEffect
    <3>6. CASE DriverSucceeds(w)
      BY <3>6, DriverSucceedsEffect
    <3>7. CASE DriverFails(w)
      BY <3>7, DriverFailsEffect
    <3>8. CASE Retry(w)
      BY <3>8, RetryEffect
    <3>9. CASE DriverGivesUp(w)
      BY <3>9, DriverGivesUpEffect
    <3>10. CASE StoreOk(w)
      BY <3>10, StoreOkEffect
    <3>11. CASE StoreFailure(w)
      BY <3>11, StoreFailureEffect
    <3>12. CASE StoreFails(w)
      BY <3>12, StoreFailsEffect
    <3> QED
      BY <1>1, <3>1, <3>2, <3>3, <3>4, <3>5, <3>6, <3>7, <3>8, <3>9, <3>10, <3>11, <3>12
         DEF Progress
  <2> QED
    BY <2>1, <2>2
<1>2. ASSUME NEW i \in Installs, WriteWebhook(i)
      PROVE  CurrentIsBegun'
  BY <1>2 DEF WriteWebhook
<1>3. CASE UNCHANGED vars
  BY <1>3 DEF vars
<1> QED
  BY <1>1, <1>2, <1>3 DEF Next

\* Whoever else lists the records, nobody is alone any more.
LEMMA StepOthersIdle ==
  ASSUME TypeOK, OthersIdle, [Next]_vars
  PROVE  OthersIdle'
<1> USE DEF OthersIdle, world
<1>1. ASSUME NEW w \in Workers, List(w)
      PROVE  OthersIdle'
  BY <1>1, ListEffect, OthersKept DEF Progress
<1>2. ASSUME NEW w \in Workers, ListFails(w)
      PROVE  OthersIdle'
  BY <1>2 DEF ListFails
<1>3. ASSUME NEW w \in Workers, Finish(w) \/ Interrupt(w)
      PROVE  OthersIdle'
  <2>1. ~List(w)
    BY <1>3, LeaveEffect, ListEffect
  <2> QED
    BY <1>3, <2>1, LeaveEffect, OthersKept DEF Progress
<1>4. ASSUME NEW w \in Workers, Progress(w), ~List(w), ~ListFails(w), ~Finish(w)
      PROVE  OthersIdle'
  <2>1. pc[w] # "idle" /\ alone'[w] = alone[w]
    BY <1>4, BeginEffect, ResolveFailsEffect, DriverSucceedsEffect, DriverFailsEffect,
       RetryEffect, DriverGivesUpEffect, StoreOkEffect, StoreFailureEffect,
       StoreFailsEffect DEF Progress
  <2>2. \A v \in Workers : v # w => pc'[v] = pc[v] /\ alone'[v] = alone[v]
    BY <1>4, OthersKept
  <2> QED
    BY <2>1, <2>2
<1>5. ASSUME NEW i \in Installs, WriteWebhook(i)
      PROVE  OthersIdle'
  BY <1>5 DEF WriteWebhook
<1>6. CASE UNCHANGED vars
  BY <1>6 DEF vars
<1> QED
  BY <1>1, <1>2, <1>3, <1>4, <1>5, <1>6 DEF Next

\* The remote service never goes back, and a streak only ends where it goes on.
LEMMA RemoteGrows ==
  ASSUME TypeOK, NEW w \in Workers, Progress(w) \/ Interrupt(w), NEW i \in Installs
  PROVE  /\ remote'[i] \in Nat /\ streak'[i] \in Nat
         /\ remote'[i] >= remote[i]
         /\ remote'[i] = remote[i] => streak'[i] >= streak[i]
<1>1. remote[i] \in Nat /\ streak[i] \in Nat
  BY FieldTypes
<1>2. CASE UNCHANGED <<remote, streak>>
  BY <1>1, <1>2
<1>3. CASE DriverSucceeds(w)
  BY <1>1, <1>3, DriverSucceedsEffect
<1>4. CASE DriverFails(w)
  BY <1>1, <1>4, DriverFailsEffect
<1>5. CASE DriverGivesUp(w)
  BY <1>1, <1>5, DriverGivesUpEffect
<1>6. CASE List(w) \/ ListFails(w) \/ Finish(w) \/ Retry(w) \/ StoreFails(w) \/ Interrupt(w)
  BY <1>2, <1>6 DEF List, ListFails, Finish, Retry, StoreFails, Interrupt, world
<1>7. CASE \E j \in Installs : Begin(w, j) \/ ResolveFails(w, j)
  BY <1>2, <1>7 DEF Begin, ResolveFails, world
<1>8. CASE StoreOk(w) \/ StoreFailure(w)
  BY <1>2, <1>8 DEF StoreOk, StoreFailure, Write
<1> QED
  BY <1>3, <1>4, <1>5, <1>6, <1>7, <1>8 DEF Progress

\* Counts stay covered by streaks, whatever is written over what: a streak
\* only ends with a sync that puts the remote service ahead of every record.
LEMMA StepCountsCovered ==
  ASSUME TypeOK, CurrentIsBegun, CountsCovered, FailuresNotOvercounted, [Next]_vars
  PROVE  CountsCovered' /\ FailuresNotOvercounted'
<1> DEFINE Behind(v) == pc[v] = "storeOk" => state[v] <= remote[current[v]]
           Covered(v) ==
             \A i \in Owed(v) :
               /\ listed[v][i].subs <= remote[i]
               /\ listed[v][i].subs = remote[i] =>
                    listed[v][i].failures + Debt(v, i) <= streak[i]
           Stored(i) ==
             /\ store[i].subs <= remote[i]
             /\ store[i].subs = remote[i] => store[i].failures <= streak[i]
<1>1. /\ \A i \in Installs : Stored(i)
      /\ \A v \in Workers : Behind(v) /\ Covered(v)
  BY DEF CountsCovered, FailuresNotOvercounted
<1>2. \A v \in Workers : Owed(v) \subseteq Installs
  BY FieldTypes DEF Owed
<1>3. ASSUME NEW w \in Workers, Progress(w) \/ Interrupt(w)
      PROVE  /\ \A i \in Installs : Stored(i)'
             /\ \A v \in Workers : Behind(v)' /\ Covered(v)'
  <2>1. \A i \in Installs :
          /\ remote[i] \in Nat /\ streak[i] \in Nat
          /\ remote'[i] \in Nat /\ streak'[i] \in Nat
          /\ remote'[i] >= remote[i]
          /\ remote'[i] = remote[i] => streak'[i] >= streak[i]
    BY <1>3, RemoteGrows, FieldTypes
  <2>2. ASSUME NEW v \in Workers, v # w
        PROVE  Behind(v)' /\ Covered(v)'
    <3>1. /\ pc'[v] = pc[v] /\ listed'[v] = listed[v] /\ todo'[v] = todo[v]
          /\ current'[v] = current[v] /\ state'[v] = state[v]
      BY <1>3, <2>2, OthersKept
    <3>2. Behind(v)'
      <4>1. /\ current[v] \in Installs /\ state[v] \in Nat
            /\ pc[v] = "storeOk" => state[v] <= remote[current[v]]
        BY <1>1, FieldTypes
      <4>2. pc[v] = "storeOk" => state[v] <= remote'[current[v]]
        BY <2>1, <4>1
      <4> QED
        BY <3>1, <4>2
    <3>3. Covered(v)'
      <4>1. Owed(v)' = Owed(v) /\ \A i \in Installs : Debt(v, i)' = Debt(v, i)
        BY <3>1 DEF Owed, Debt
      <4>2. \A i \in Installs : Debt(v, i) \in Nat
        BY DEF Debt
      <4> SUFFICES ASSUME NEW i \in Owed(v)
                   PROVE  /\ listed[v][i].subs <= remote'[i]
                          /\ listed[v][i].subs = remote'[i] =>
                               listed[v][i].failures + Debt(v, i) <= streak'[i]
        BY <1>2, <3>1, <4>1 DEF Debt
      <4> QED
        BY <1>1, <1>2, <2>1, <4>2, FieldTypes
    <3> QED
      BY <3>2, <3>3
  \* An install whose record stays
  <2>3. ASSUME NEW i \in Installs, store'[i] = store[i]
        PROVE  Stored(i)'
    BY <1>1, <2>1, <2>3, FieldTypes
  <2>4. ASSUME store' = store
        PROVE  \A i \in Installs : Stored(i)'
    BY <2>3, <2>4
  <2> HIDE DEF Stored, Behind, Covered
  <2>5. ASSUME (\A i \in Installs : Stored(i)') /\ Behind(w)' /\ Covered(w)'
        PROVE  /\ \A i \in Installs : Stored(i)'
               /\ \A v \in Workers : Behind(v)' /\ Covered(v)'
    BY <2>2, <2>5
  <2> USE DEF Stored, Behind, Covered
  <2> SUFFICES (\A i \in Installs : Stored(i)') /\ Behind(w)' /\ Covered(w)'
    BY <2>5
  <2>6. CASE List(w)
    BY <1>1, <2>1, <2>4, <2>6, ListEffect, FieldTypes DEF Owed, Debt, world
  <2>7. CASE ListFails(w)
    BY <1>1, <2>7 DEF ListFails, Owed, Debt, world
  <2>8. ASSUME NEW i \in Installs, Begin(w, i)
        PROVE  (\A j \in Installs : Stored(j)') /\ Behind(w)' /\ Covered(w)'
    BY <1>1, <2>8, BeginEffect DEF Owed, Debt, world
  <2>9. ASSUME NEW i \in Installs, ResolveFails(w, i)
        PROVE  (\A j \in Installs : Stored(j)') /\ Behind(w)' /\ Covered(w)'
    BY <1>1, <2>9, ResolveFailsEffect DEF Owed, Debt, world
  <2>10. CASE Finish(w) \/ Interrupt(w)
    BY <1>1, <2>10, LeaveEffect DEF Owed, world
  <2>11. CASE DriverSucceeds(w)
    BY <1>1, <1>2, <2>1, <2>4, <2>11, DriverSucceedsEffect, FieldTypes DEF Owed, Debt
  <2>12. CASE DriverFails(w)
    BY <1>1, <1>2, <2>1, <2>4, <2>12, DriverFailsEffect, FieldTypes DEF Owed, Debt
  <2>13. CASE Retry(w)
    BY <1>1, <2>13, RetryEffect DEF Owed, Debt, world
  <2>14. CASE DriverGivesUp(w)
    BY <1>1, <1>2, <2>1, <2>4, <2>14, DriverGivesUpEffect, FieldTypes DEF Owed, Debt
  <2>15. CASE StoreOk(w)
    <3>1. ASSUME NEW i \in Installs, i = current[w]
          PROVE  Stored(i)'
      BY <1>1, <2>15, <3>1, StoreOkEffect, FieldTypes
    <3>2. \A i \in Installs : Stored(i)'
      BY <2>3, <2>15, <3>1, StoreOkEffect
    <3> QED
      BY <1>1, <2>15, <3>2, StoreOkEffect, FieldTypes DEF CurrentIsBegun, Owed, Debt
  <2>16. CASE StoreFailure(w)
    <3>1. ASSUME NEW i \in Installs, i = current[w]
          PROVE  Stored(i)'
      <4>1. i \in Owed(w) /\ Debt(w, i) = 1
        BY <2>16, <3>1, StoreFailureEffect DEF Owed, Debt
      <4> QED
        BY <1>1, <2>16, <3>1, <4>1, StoreFailureEffect, FieldTypes
    <3>2. \A i \in Installs : Stored(i)'
      BY <2>3, <2>16, <3>1, StoreFailureEffect
    <3> QED
      BY <1>1, <2>16, <3>2, StoreFailureEffect, FieldTypes DEF CurrentIsBegun, Owed, Debt
  <2>17. CASE StoreFails(w)
    BY <1>1, <2>17, StoreFailsEffect, FieldTypes DEF CurrentIsBegun, Owed, Debt, world
  <2> QED
    BY <1>3, <2>6, <2>7, <2>8, <2>9, <2>10, <2>11, <2>12, <2>13, <2>14, <2>15, <2>16, <2>17
       DEF Progress
<1>4. ASSUME NEW i \in Installs, WriteWebhook(i)
      PROVE  /\ \A j \in Installs : Stored(j)'
             /\ \A v \in Workers : Behind(v)' /\ Covered(v)'
  <2>1. \A j \in Installs :
          store'[j].subs = store[j].subs /\ store'[j].failures = store[j].failures
    BY <1>4, WebhookKeepsSync
  <2>2. UNCHANGED <<remote, streak, pc, listed, todo, current, state>>
    BY <1>4 DEF WriteWebhook
  <2> QED
    BY <1>1, <2>1, <2>2 DEF Owed, Debt
<1>5. CASE UNCHANGED vars
  BY <1>1, <1>5 DEF vars, CountsCovered, FailuresNotOvercounted, Owed, Debt
<1> QED
  BY <1>3, <1>4, <1>5 DEF Next, CountsCovered, FailuresNotOvercounted

---------------------------------------------------------------------------
(* What holds of a pass that is alone *)

\* A pass that is alone accounts for its installs.
LEMMA StepSolo ==
  ASSUME TypeOK, CurrentIsBegun, OthersIdle, SoloInv, [Next]_vars
  PROVE  SoloInv'
<1> SUFFICES ASSUME NEW w \in Workers, alone'[w]
             PROVE  Solo(w)'
  BY DEF SoloInv
<1> USE DEF Solo, Owed, Done
<1>1. /\ remote \in [Installs -> Nat] /\ current[w] \in Installs
      /\ todo[w] \subseteq Installs /\ pc[w] \in Stages
  BY FieldTypes DEF TypeOK
<1>2. CASE List(w)
  BY <1>1, <1>2, ListEffect DEF world
<1>3. CASE (Progress(w) \/ Interrupt(w)) /\ ~List(w) /\ ~ListFails(w)
  <2>1. ~Finish(w) /\ ~Interrupt(w)
    BY LeaveEffect
  <2>2. alone'[w] = alone[w]
    BY <1>3, <2>1, BeginEffect, ResolveFailsEffect, DriverSucceedsEffect,
       DriverFailsEffect, RetryEffect, DriverGivesUpEffect, StoreOkEffect,
       StoreFailureEffect, StoreFailsEffect DEF Progress
  <2>3. Solo(w)
    BY <2>2 DEF SoloInv
  <2>4. ASSUME NEW i \in Installs, Begin(w, i)
        PROVE  Solo(w)'
    BY <1>1, <2>3, <2>4, BeginEffect DEF world
  <2>5. ASSUME NEW i \in Installs, ResolveFails(w, i)
        PROVE  Solo(w)'
    BY <1>1, <2>3, <2>5, ResolveFailsEffect DEF world
  <2>6. CASE DriverSucceeds(w)
    BY <1>1, <2>3, <2>6, DriverSucceedsEffect
  <2>7. CASE DriverFails(w)
    BY <1>1, <2>3, <2>7, DriverFailsEffect
  <2>8. CASE Retry(w)
    BY <1>1, <2>3, <2>8, RetryEffect DEF world
  <2>9. CASE DriverGivesUp(w)
    BY <1>1, <2>3, <2>9, DriverGivesUpEffect
  <2>10. CASE StoreOk(w)
    BY <1>1, <2>3, <2>10, StoreOkEffect DEF CurrentIsBegun
  <2>11. CASE StoreFailure(w)
    BY <1>1, <2>3, <2>11, StoreFailureEffect DEF CurrentIsBegun
  <2>12. CASE StoreFails(w)
    BY <1>1, <2>3, <2>12, StoreFailsEffect DEF CurrentIsBegun, world
  <2> QED
    BY <1>3, <2>1, <2>4, <2>5, <2>6, <2>7, <2>8, <2>9, <2>10, <2>11, <2>12 DEF Progress
<1>4. ASSUME NEW v \in Workers, ListFails(v)
      PROVE  Solo(w)'
  BY <1>4 DEF ListFails, SoloInv, world
<1>5. ASSUME NEW v \in Workers, v # w, Progress(v) \/ Interrupt(v), ~ListFails(v)
      PROVE  FALSE
  <2>1. ~List(v)
    BY <1>5, ListEffect
  <2>2. pc[v] # "idle"
    BY <1>5, <2>1, LeaveEffect, BeginEffect, ResolveFailsEffect, DriverSucceedsEffect,
       DriverFailsEffect, RetryEffect, DriverGivesUpEffect, StoreOkEffect,
       StoreFailureEffect, StoreFailsEffect DEF Progress
  <2>3. alone'[w] = alone[w]
    BY <1>5, <2>1, OthersKept
  <2> QED
    BY <1>5, <2>2, <2>3 DEF OthersIdle
<1>6. ASSUME NEW i \in Installs, WriteWebhook(i)
      PROVE  Solo(w)'
  <2>1. \A j \in Installs :
          /\ store'[j].subs = store[j].subs /\ store'[j].failures = store[j].failures
          /\ store'[j].degraded = store[j].degraded
          /\ store'[j].lastSync = store[j].lastSync
    BY <1>6, WebhookKeepsSync
  <2>2. UNCHANGED <<remote, pc, listed, todo, current, state, diags, alone>>
    BY <1>6 DEF WriteWebhook
  <2>3. Solo(w)
    BY <2>2 DEF SoloInv
  <2> QED
    BY <1>1, <2>1, <2>2, <2>3
<1>7. CASE UNCHANGED vars
  BY <1>7 DEF vars, SoloInv
<1> QED
  BY <1>2, <1>3, <1>4, <1>5, <1>6, <1>7 DEF Next

---------------------------------------------------------------------------
(* The inductive invariant *)

IInv ==
  /\ Typed /\ RecordsMarked /\ CurrentIsBegun
  /\ CountsCovered /\ FailuresNotOvercounted
  /\ OthersIdle /\ SoloInv

LEMMA InitIInv == Init => IInv
<1> SUFFICES ASSUME Init PROVE IInv
  OBVIOUS
<1>1. Typed
  BY InitTyped
<1>2. RecordsMarked
  BY InitRecordsMarked
<1>3. CurrentIsBegun /\ OthersIdle /\ SoloInv
  BY DEF Init, CurrentIsBegun, OthersIdle, SoloInv
<1>4. CountsCovered /\ FailuresNotOvercounted
  BY DEF Init, CountsCovered, Owed, NewRecord, FailuresNotOvercounted
<1> QED
  BY <1>1, <1>2, <1>3, <1>4 DEF IInv

LEMMA StepIInv == IInv /\ [Next]_vars => IInv'
<1> SUFFICES ASSUME IInv, [Next]_vars PROVE IInv'
  OBVIOUS
<1>1. /\ Typed /\ TypeOK /\ RecordsMarked /\ CurrentIsBegun /\ CountsCovered
      /\ FailuresNotOvercounted /\ OthersIdle /\ SoloInv
  BY DEF IInv, Typed
<1>2. Typed' /\ RecordsMarked' /\ CurrentIsBegun'
  BY <1>1, StepTyped, StepRecordsMarked, StepCurrentIsBegun
<1>3. CountsCovered' /\ FailuresNotOvercounted'
  BY <1>1, StepCountsCovered
<1>4. OthersIdle' /\ SoloInv'
  BY <1>1, StepOthersIdle, StepSolo
<1> QED
  BY <1>2, <1>3, <1>4 DEF IInv

LEMMA AlwaysIInv == Spec => []IInv
BY InitIInv, StepIInv, PTL DEF Spec

---------------------------------------------------------------------------
(* The theorems *)

\* The state has its types, and attempts stay within max_retries.
THEOREM TypeCorrect == Spec => []TypeOK
<1>1. IInv => TypeOK
  BY DEF IInv, Typed
<1> QED
  BY <1>1, AlwaysIInv, PTL

\* A record is marked degraded exactly when its count is not zero and has
\* reached max_failures, however many workers write back what they listed
\* earlier, and for every limit, zero included.
THEOREM DegradedIffLimit == Spec => []DegradedAtLimit
<1>1. IInv => DegradedAtLimit
  BY DEF IInv, RecordsMarked, Marked, DegradedAtLimit
<1> QED
  BY <1>1, AlwaysIInv, PTL

\* A pass that is through with an install without a diagnostic has brought its
\* record up to date with the remote service, if no other pass ran meanwhile.
THEOREM PassAccounts == Spec => []PassAccountsForInstalls
<1>1. IInv => PassAccountsForInstalls
  BY DEF IInv, SoloInv, Solo, PassAccountsForInstalls
<1> QED
  BY <1>1, AlwaysIInv, PTL

\* A pass that reports a diagnostic for an install has recorded no new state,
\* if no other pass ran meanwhile.
THEOREM DiagnosticsAreFailures == Spec => []DiagnosedIsNotSynced
<1>1. IInv => DiagnosedIsNotSynced
  BY DEF IInv, SoloInv, Solo, DiagnosedIsNotSynced
<1> QED
  BY <1>1, AlwaysIInv, PTL

\* A recorded failure count never exceeds the streak of failed syncs, however
\* many passes overlap and write stale records over newer ones.
THEOREM CountsAreEarned == Spec => []FailuresNotOvercounted
<1>1. IInv => FailuresNotOvercounted
  BY DEF IInv
<1> QED
  BY <1>1, AlwaysIInv, PTL

===========================================================================
