------------------------- MODULE EventBusProofs -------------------------
(***************************************************************************)
(* Theorems about EventBus, for every set of calls, every envelope, every  *)
(* list of registrations and every list of ACL rules.                      *)
(***************************************************************************)
EXTENDS EventBus, SequenceTheorems, FiniteSetTheorems, TLAPS

---------------------------------------------------------------------------
(* The inductive invariant *)

\* A call is over exactly when it returned or was dropped where it waits.
Control ==
  \A c \in Calls :
    /\ pc[c] = "done" <=> result[c] \notin {"none", "dropped"}
    /\ result[c] = "dropped" => pc[c] \in {"calling", "sleeping", "dlqCalling"}

\* Only events with a key stop at the key check, so that what is composed
\* there is a string.
KeyStage == \A c \in Calls : pc[c] = "recordKey" => Keyed(c)

\* Admitted calls with a key and the keys of the store are one to one.
KeysHeld ==
  /\ \A c \in Calls : Keyed(c) /\ Admitted(c) => ComposedKey(Event[c]) \in seen
  /\ \A k \in seen : \E d \in Calls :
       Keyed(d) /\ Admitted(d) /\ ComposedKey(Event[d]) = k
  /\ \A c, d \in Calls :
       c # d /\ Keyed(c) /\ Keyed(d) /\ Admitted(c) /\ Admitted(d)
         => ComposedKey(Event[c]) # ComposedKey(Event[d])

\* Only admitted calls reach the provider, and a duplicate's key is in the
\* store.
Gate ==
  \A c \in Calls :
    /\ HandedOver(c) => Admitted(c)
    /\ result[c] = "duplicate" => Keyed(c) /\ ComposedKey(Event[c]) \in seen
                                  /\ ~Admitted(c)

KeyInv == TypeOK /\ KeyStage /\ Control /\ KeysHeld /\ Gate

\* A routed call passed the ACL and borrowed the registration that serves its
\* topic first.
RouteInv ==
  \A c \in Calls : provider[c] # 0 =>
    /\ AllowPublish(Event[c])
    /\ Serving(Event[c].topic) # {}
    /\ provider[c] = ProviderForTopic(Event[c].topic)

\* Nothing has happened to a call that is not admitted yet.
Fresh(c) ==
  /\ copies[c] = 0 /\ letters[c] = 0 /\ attempt[c] = 0
  /\ ~taken[c] /\ lastErr[c] = "none"

\* Where the retry loop stands: what each stage knows of the attempts made.
Loop(c) ==
  /\ pc[c] = "recordKey" => Fresh(c)
  /\ pc[c] = "calling" =>
       /\ copies[c] <= attempt[c] + (IF taken[c] THEN 1 ELSE 0)
       /\ taken[c] => copies[c] > 0
       /\ lastErr[c] = "none" \/ IsRetryable(Policy(c), lastErr[c])
  /\ pc[c] = "sleeping" =>
       attempt[c] < Policy(c).maxRetries /\ IsRetryable(Policy(c), lastErr[c])
  /\ pc[c] = "recordOut" \/ result[c] = "ok" => copies[c] > 0
  /\ (pc[c] \in {"recordFailed", "dlqCalling", "recordDlq"}
        \/ result[c] = "deliveryFailed") => GivesUp(c, lastErr[c])
  /\ copies[c] <= attempt[c] + 1
  /\ attempt[c] <= Policy(c).maxRetries
  /\ pc[c] = "dlqCalling" => letters[c] = (IF taken[c] THEN 1 ELSE 0)
  /\ (pc[c] \in {"calling", "sleeping", "recordOut", "recordFailed"}
        \/ result[c] = "ok") => letters[c] = 0

RetryOf(c) ==
  IF provider[c] = 0
  THEN /\ pc[c] \in {"idle", "done"}
       /\ result[c] \in {"none", "aclDenied", "noProvider"}
       /\ Fresh(c)
  ELSE pc[c] # "idle" /\ Loop(c)

RetryInv == \A c \in Calls : RetryOf(c)

---------------------------------------------------------------------------
(* Lemmas on the operators *)

\* The first index of a non-empty set of naturals is its least element.
LEMMA FirstIsLeast ==
  ASSUME NEW S, S \subseteq Nat, S # {}
  PROVE  First(S) \in S /\ \A j \in S : First(S) <= j
<1>1. PICK x \in S : \A y \in S : <<y, x>> \notin OpToRel(<, Nat)
  BY NatLessThanWellFounded, WFMin
<1>2. \A j \in S : x <= j
  <2>1. SUFFICES ASSUME NEW j \in S, j < x PROVE FALSE
    BY SMT
  <2>2. <<j, x>> \in Nat \X Nat /\ <<j, x>>[1] < <<j, x>>[2]
    BY <2>1, SMT
  <2>3. <<j, x>> \in OpToRel(<, Nat)
    BY <2>2, Zenon DEF OpToRel
  <2>4. QED
    BY <1>1, <2>3
<1>3. QED
  BY <1>2 DEF First

\* Routing to a served topic gives the registration that serves it first.
LEMMA Routed ==
  ASSUME NEW topic, Serving(topic) # {}
  PROVE  /\ ProviderForTopic(topic) \in 1 .. Len(Registrations)
         /\ ProviderForTopic(topic) \in Serving(topic)
         /\ \A j \in Serving(topic) : ProviderForTopic(topic) <= j
<1>1. DOMAIN Registrations = 1 .. Len(Registrations)
  BY ConfigAssumption, LenProperties
<1>2. Len(Registrations) \in Nat
  BY ConfigAssumption, LenProperties
<1>3. Serving(topic) \subseteq 1 .. Len(Registrations)
  BY <1>1 DEF Serving
<1>4. Serving(topic) \subseteq Nat
  BY <1>2, <1>3
<1>5. QED
  BY <1>3, <1>4, FirstIsLeast DEF ProviderForTopic

\* The policy of a routed call has a natural budget.
LEMMA BudgetType ==
  ASSUME NEW p \in 1 .. Len(Registrations)
  PROVE  Registrations[p].maxRetries \in Nat
<1>1. Registrations[p] \in ProviderRegistration
  BY ConfigAssumption, ElementOfSeq
<1>2. QED
  BY <1>1 DEF ProviderRegistration

\* The envelope of a call is well formed.
LEMMA EnvelopeType ==
  ASSUME NEW c \in Calls
  PROVE  /\ Event[c].tenant \in Seq(Chars)
         /\ Keyed(c) => Event[c].key \in Seq(Chars)
         /\ Event[c].topic \in Topics
BY EventAssumption DEF Envelopes, Keyed

\* A composed key is a string.
LEMMA ComposedKeyType ==
  ASSUME NEW c \in Calls, Keyed(c)
  PROVE  ComposedKey(Event[c]) \in Seq(Chars)
<1>1. <<Separator>> \in Seq(Chars)
  BY EventAssumption
<1>2. Event[c].tenant \o <<Separator>> \in Seq(Chars)
  BY <1>1, EnvelopeType, ConcatProperties
<1>3. QED
  BY <1>2, EnvelopeType, ConcatProperties DEF ComposedKey

\* The first separator of a composed key is the one behind the tenant.
LEMMA SeparatorPlace ==
  ASSUME NEW c \in Calls, Keyed(c)
  PROVE  LET k == ComposedKey(Event[c])  t == Event[c].tenant IN
         /\ Len(k) = Len(t) + 1 + Len(Event[c].key)
         /\ \A i \in 1 .. Len(t) : k[i] = t[i] /\ k[i] # Separator
         /\ k[Len(t) + 1] = Separator
         /\ \A i \in 1 .. Len(Event[c].key) : k[Len(t) + 1 + i] = Event[c].key[i]
<1> DEFINE k == ComposedKey(Event[c])
           t == Event[c].tenant
           s == t \o <<Separator>>
<1>1. <<Separator>> \in Seq(Chars) /\ Len(<<Separator>>) = 1
  BY EventAssumption
<1>2. /\ t \in Seq(Chars) /\ Event[c].key \in Seq(Chars)
      /\ Len(t) \in Nat /\ Len(Event[c].key) \in Nat
      /\ DOMAIN t = 1 .. Len(t)
  BY EnvelopeType, LenProperties
<1>3. /\ s \in Seq(Chars)
      /\ Len(s) = Len(t) + 1
      /\ \A i \in 1 .. Len(t) : s[i] = t[i]
      /\ s[Len(t) + 1] = Separator
  <2> DEFINE z == <<Separator>>
  <2>1. z[1] = Separator
    OBVIOUS
  <2>2. z \in Seq(Chars) /\ Len(z) = 1
    BY <1>1
  <2>3. s = t \o z
    OBVIOUS
  <2>4. t \in Seq(Chars) /\ Len(t) \in Nat
    BY <1>2
  <2> HIDE DEF s, t, z
  <2>5. /\ s \in Seq(Chars)
        /\ Len(s) = Len(t) + Len(z)
        /\ \A i \in 1 .. Len(t) + Len(z) : s[i] = IF i <= Len(t) THEN t[i] ELSE z[i - Len(t)]
    BY <2>2, <2>3, <2>4, ConcatProperties
  <2>6. \A i \in 1 .. Len(t) : s[i] = t[i]
    BY <2>2, <2>4, <2>5
  <2>7. s[Len(t) + 1] = z[Len(t) + 1 - Len(t)] /\ Len(t) + 1 - Len(t) = 1
    BY <2>2, <2>4, <2>5
  <2>8. QED
    BY <2>1, <2>2, <2>5, <2>6, <2>7
<1> DEFINE y == Event[c].key
<1>4. /\ Len(k) = Len(s) + Len(y)
      /\ \A i \in 1 .. Len(s) + Len(y) : k[i] = IF i <= Len(s) THEN s[i] ELSE y[i - Len(s)]
  <2>1. k = s \o y
    BY DEF ComposedKey
  <2>2. s \in Seq(Chars) /\ y \in Seq(Chars)
    BY <1>2, <1>3
  <2> HIDE DEF k, s, t, y
  <2>3. QED
    BY <2>1, <2>2, ConcatProperties
<1>5. \A i \in 1 .. Len(t) : t[i] # Separator
  BY <1>2, EventAssumption
<1>6. Len(y) \in Nat /\ Len(t) \in Nat
  BY <1>2
<1> HIDE DEF k, t, s, y
<1>7. Len(k) = Len(t) + 1 + Len(y)
  BY <1>3, <1>4, <1>6
<1>8. \A i \in 1 .. Len(t) : k[i] = t[i] /\ k[i] # Separator
  BY <1>3, <1>4, <1>5, <1>6
<1>9. k[Len(t) + 1] = Separator
  BY <1>3, <1>4, <1>6
<1>10. \A i \in 1 .. Len(y) : k[Len(t) + 1 + i] = y[i]
  <2>1. SUFFICES ASSUME NEW i \in 1 .. Len(y) PROVE k[Len(t) + 1 + i] = y[i]
    OBVIOUS
  <2>2. /\ Len(t) + 1 + i \in 1 .. Len(s) + Len(y)
        /\ ~(Len(t) + 1 + i <= Len(s))
        /\ Len(t) + 1 + i - Len(s) = i
    BY <1>3, <1>6
  <2>3. QED
    BY <2>2, <1>4
<1>11. QED
  BY <1>7, <1>8, <1>9, <1>10 DEF k, t, y

\* Two envelopes with one composed key have one tenant and one key: the
\* separator keeps tenants apart whatever the keys contain.
LEMMA ComposedKeyInjective ==
  ASSUME NEW c \in Calls, NEW d \in Calls, Keyed(c), Keyed(d),
         ComposedKey(Event[c]) = ComposedKey(Event[d])
  PROVE  Event[c].tenant = Event[d].tenant /\ Event[c].key = Event[d].key
<1> DEFINE k == ComposedKey(Event[c])
           t == Event[c].tenant
           u == Event[d].tenant
           x == Event[c].key
           y == Event[d].key
<1>1. /\ t \in Seq(Chars) /\ u \in Seq(Chars) /\ x \in Seq(Chars) /\ y \in Seq(Chars)
      /\ Len(t) \in Nat /\ Len(u) \in Nat /\ Len(x) \in Nat /\ Len(y) \in Nat
  BY EnvelopeType, LenProperties
<1>2. /\ Len(k) = Len(t) + 1 + Len(x)
      /\ \A i \in 1 .. Len(t) : k[i] = t[i] /\ k[i] # Separator
      /\ k[Len(t) + 1] = Separator
      /\ \A i \in 1 .. Len(x) : k[Len(t) + 1 + i] = x[i]
  BY SeparatorPlace
<1>3. /\ Len(k) = Len(u) + 1 + Len(y)
      /\ \A i \in 1 .. Len(u) : k[i] = u[i] /\ k[i] # Separator
      /\ k[Len(u) + 1] = Separator
      /\ \A i \in 1 .. Len(y) : k[Len(u) + 1 + i] = y[i]
  <2> DEFINE l == ComposedKey(Event[d])
  <2>1. /\ Len(l) = Len(u) + 1 + Len(y)
        /\ \A i \in 1 .. Len(u) : l[i] = u[i] /\ l[i] # Separator
        /\ l[Len(u) + 1] = Separator
        /\ \A i \in 1 .. Len(y) : l[Len(u) + 1 + i] = y[i]
    BY SeparatorPlace
  <2>2. l = k
    OBVIOUS
  <2> HIDE DEF k, l, t, u, x, y
  <2> QED
    BY <2>1, <2>2
<1> HIDE DEF k, t, u, x, y
<1>4. Len(t) = Len(u)
  <2>1. ~(Len(t) < Len(u))
    <3>1. Len(t) < Len(u) => Len(t) + 1 \in 1 .. Len(u)
      BY <1>1
    <3>2. QED
      BY <3>1, <1>2, <1>3
  <2>2. ~(Len(u) < Len(t))
    <3>1. Len(u) < Len(t) => Len(u) + 1 \in 1 .. Len(t)
      BY <1>1
    <3>2. QED
      BY <3>1, <1>2, <1>3
  <2>3. QED
    BY <2>1, <2>2, <1>1
<1>5. Len(x) = Len(y)
  BY <1>1, <1>2, <1>3, <1>4
<1>6. t = u
  <2>1. \A i \in 1 .. Len(t) : t[i] = u[i]
    BY <1>2, <1>3, <1>4
  <2>2. QED
    BY <2>1, <1>1, <1>4, SeqEqual
<1>7. x = y
  <2>1. \A i \in 1 .. Len(x) : x[i] = y[i]
    BY <1>2, <1>3, <1>4, <1>5
  <2>2. QED
    BY <2>1, <1>1, <1>5, SeqEqual
<1>8. QED
  BY <1>6, <1>7 DEF t, u, x, y

---------------------------------------------------------------------------
(* Type correctness *)

LEMMA TypeInit == Init => TypeOK
BY DEF Init, TypeOK, Stages, Results

LEMMA KeyStageStep == TypeOK /\ KeyStage /\ [Next]_vars => KeyStage'
<1> SUFFICES ASSUME TypeOK, KeyStage, [Next]_vars PROVE KeyStage'
  OBVIOUS
<1>1. \A d \in Calls : pc'[d] = "recordKey" => pc[d] = "recordKey" \/ Keyed(d)
  <2>1. CASE UNCHANGED vars
    BY <2>1 DEF vars
  <2>2. ASSUME NEW c \in Calls, Accept(c)
        PROVE  \A d \in Calls : pc'[d] = "recordKey" => pc[d] = "recordKey" \/ Keyed(d)
    BY <2>2 DEF Accept, Goto, TypeOK
  <2>3. ASSUME NEW c \in Calls,
               pc' = pc \/ \E stage \in Stages \ {"recordKey"} : pc' = [pc EXCEPT ![c] = stage]
        PROVE  \A d \in Calls : pc'[d] = "recordKey" => pc[d] = "recordKey" \/ Keyed(d)
    BY <2>3 DEF TypeOK
  <2>4. ASSUME NEW c \in Calls, DenyAcl(c) \/ NoProvider(c) \/ RejectDuplicate(c)
                                 \/ RecordOut(c) \/ RecordDlq(c)
        PROVE  pc' = [pc EXCEPT ![c] = "done"]
    BY <2>4 DEF Return, DenyAcl, NoProvider, RejectDuplicate, RecordOut, RecordDlq
  <2>5. ASSUME NEW c \in Calls, ClaimKey(c) \/ AttemptSucceeds(c) \/ Wake(c)
                                 \/ RecordFailed(c) \/ DlqReturns(c)
        PROVE  \E stage \in Stages \ {"recordKey"} : pc' = [pc EXCEPT ![c] = stage]
    BY <2>5 DEF Goto, ClaimKey, AttemptSucceeds, Wake, RecordFailed, DlqReturns, Stages
  <2>6. ASSUME NEW c \in Calls, NEW err \in Errors, AttemptFails(c, err)
        PROVE  \E stage \in Stages \ {"recordKey"} : pc' = [pc EXCEPT ![c] = stage]
    <3>1. \E stage \in {"recordFailed", "sleeping"} : pc' = [pc EXCEPT ![c] = stage]
      BY <2>6 DEF Goto, AttemptFails
    <3> QED
      BY <3>1 DEF Stages
  <2>7. ASSUME NEW c \in Calls, ProviderTakes(c) \/ Drop(c)
        PROVE  pc' = pc
    BY <2>7 DEF ProviderTakes, Drop
  <2>8. "done" \in Stages \ {"recordKey"}
    BY DEF Stages
  <2> QED
    BY <2>1, <2>2, <2>3, <2>4, <2>5, <2>6, <2>7, <2>8 DEF Next, Progress
<1>2. QED
  BY <1>1 DEF KeyStage, Keyed

\* Counting keeps the counters natural numbers.
LEMMA CountType ==
  ASSUME metrics \in [{"in", "out", "failed", "dlq"} -> Nat],
         NEW counter \in {"in", "out", "failed", "dlq"}, Count(counter)
  PROVE  metrics' \in [{"in", "out", "failed", "dlq"} -> Nat]
BY DEF Count

LEMMA TypeStep == TypeOK /\ KeyStage /\ [Next]_vars => TypeOK'
<1> SUFFICES ASSUME TypeOK, KeyStage, [Next]_vars PROVE TypeOK'
  OBVIOUS
<1> USE DEF TypeOK, Stages, Results, At, Goto, Return
<1>1. ASSUME NEW c \in Calls, DenyAcl(c) PROVE TypeOK'
  BY <1>1 DEF DenyAcl
<1>2. ASSUME NEW c \in Calls, NoProvider(c) PROVE TypeOK'
  BY <1>2 DEF NoProvider
<1>3. ASSUME NEW c \in Calls, Accept(c) PROVE TypeOK'
  <2>1. ProviderForTopic(Event[c].topic) \in 0 .. Len(Registrations)
    BY <1>3, Routed DEF Accept
  <2>2. QED
    BY <1>3, <2>1, CountType DEF Accept
<1>4. ASSUME NEW c \in Calls, ClaimKey(c) PROVE TypeOK'
  BY <1>4, ComposedKeyType DEF ClaimKey, KeyStage
<1>5. ASSUME NEW c \in Calls, RejectDuplicate(c) PROVE TypeOK'
  BY <1>5 DEF RejectDuplicate
<1>6. ASSUME NEW c \in Calls, ProviderTakes(c) PROVE TypeOK'
  <2>1. taken' \in [Calls -> BOOLEAN]
    BY <1>6 DEF ProviderTakes
  <2>2. copies' \in [Calls -> Nat] /\ letters' \in [Calls -> Nat]
    <3>1. \A n \in Nat : n + 1 \in Nat
      OBVIOUS
    <3>2. [copies EXCEPT ![c] = @ + 1] \in [Calls -> Nat]
      BY <1>6, <3>1
    <3>3. [letters EXCEPT ![c] = @ + 1] \in [Calls -> Nat]
      BY <1>6, <3>1
    <3>4. QED
      BY <1>6, <3>2, <3>3 DEF ProviderTakes
  <2>3. QED
    BY <1>6, <2>1, <2>2 DEF ProviderTakes
<1>7. ASSUME NEW c \in Calls, AttemptSucceeds(c) PROVE TypeOK'
  <2>1. /\ pc' = [pc EXCEPT ![c] = "recordOut"]
        /\ UNCHANGED <<result, provider, attempt, lastErr, taken, seen, metrics,
                       copies, letters>>
    BY <1>7 DEF AttemptSucceeds
  <2> QED
    BY <2>1
<1>8. ASSUME NEW c \in Calls, NEW err \in Errors, AttemptFails(c, err) PROVE TypeOK'
  <2>1. /\ \E stage \in {"recordFailed", "sleeping"} : pc' = [pc EXCEPT ![c] = stage]
        /\ lastErr' = [lastErr EXCEPT ![c] = err]
        /\ UNCHANGED <<result, provider, attempt, taken, seen, metrics, copies, letters>>
    BY <1>8 DEF AttemptFails
  <2>2. pc' \in [Calls -> Stages]
    BY <2>1
  <2> QED
    BY <2>1, <2>2
<1>9. ASSUME NEW c \in Calls, Wake(c) PROVE TypeOK'
  BY <1>9 DEF Wake
<1>10. ASSUME NEW c \in Calls, RecordOut(c) PROVE TypeOK'
  BY <1>10, CountType DEF RecordOut
<1>11. ASSUME NEW c \in Calls, RecordFailed(c) PROVE TypeOK'
  BY <1>11, CountType DEF RecordFailed
<1>12. ASSUME NEW c \in Calls, DlqReturns(c) PROVE TypeOK'
  BY <1>12 DEF DlqReturns
<1>13. ASSUME NEW c \in Calls, RecordDlq(c) PROVE TypeOK'
  BY <1>13, CountType DEF RecordDlq
<1>14. ASSUME NEW c \in Calls, Drop(c) PROVE TypeOK'
  BY <1>14 DEF Drop
<1>15. CASE UNCHANGED vars
  BY <1>15 DEF vars
<1>16. QED
  BY <1>1, <1>2, <1>3, <1>4, <1>5, <1>6, <1>7, <1>8, <1>9, <1>10, <1>11,
     <1>12, <1>13, <1>14, <1>15 DEF Next, Progress

\* The state keeps its types whatever the calls and the providers do.
THEOREM TypeCorrect == Spec => []TypeOK
<1>1. Init => TypeOK /\ KeyStage
  BY TypeInit DEF Init, KeyStage
<1>2. (TypeOK /\ KeyStage) /\ [Next]_vars => (TypeOK /\ KeyStage)'
  BY TypeStep, KeyStageStep
<1>3. QED
  BY <1>1, <1>2, PTL DEF Spec

---------------------------------------------------------------------------
(* One call per key *)

LEMMA ControlStep == TypeOK /\ Control /\ [Next]_vars => Control'
<1> SUFFICES ASSUME TypeOK, Control, [Next]_vars PROVE Control'
  OBVIOUS
<1> USE DEF TypeOK, Control, At, Goto, Return
<1>1. ASSUME NEW c \in Calls, DenyAcl(c) PROVE Control'
  BY <1>1 DEF DenyAcl
<1>2. ASSUME NEW c \in Calls, NoProvider(c) PROVE Control'
  BY <1>2 DEF NoProvider
<1>3. ASSUME NEW c \in Calls, Accept(c) PROVE Control'
  BY <1>3 DEF Accept
<1>4. ASSUME NEW c \in Calls, ClaimKey(c) PROVE Control'
  BY <1>4 DEF ClaimKey
<1>5. ASSUME NEW c \in Calls, RejectDuplicate(c) PROVE Control'
  BY <1>5 DEF RejectDuplicate
<1>6. ASSUME NEW c \in Calls, ProviderTakes(c) PROVE Control'
  BY <1>6 DEF ProviderTakes
<1>7. ASSUME NEW c \in Calls, AttemptSucceeds(c) PROVE Control'
  BY <1>7 DEF AttemptSucceeds
<1>8. ASSUME NEW c \in Calls, NEW err \in Errors, AttemptFails(c, err) PROVE Control'
  BY <1>8 DEF AttemptFails
<1>9. ASSUME NEW c \in Calls, Wake(c) PROVE Control'
  BY <1>9 DEF Wake
<1>10. ASSUME NEW c \in Calls, RecordOut(c) PROVE Control'
  BY <1>10 DEF RecordOut
<1>11. ASSUME NEW c \in Calls, RecordFailed(c) PROVE Control'
  BY <1>11 DEF RecordFailed
<1>12. ASSUME NEW c \in Calls, DlqReturns(c) PROVE Control'
  BY <1>12 DEF DlqReturns
<1>13. ASSUME NEW c \in Calls, RecordDlq(c) PROVE Control'
  BY <1>13 DEF RecordDlq
<1>14. ASSUME NEW c \in Calls, Drop(c) PROVE Control'
  BY <1>14 DEF Drop
<1>15. CASE UNCHANGED vars
  BY <1>15 DEF vars
<1>16. QED
  BY <1>1, <1>2, <1>3, <1>4, <1>5, <1>6, <1>7, <1>8, <1>9, <1>10, <1>11,
     <1>12, <1>13, <1>14, <1>15 DEF Next, Progress

\* Only ClaimKey admits a call with a key, and only ClaimKey changes the store.
LEMMA AdmissionStep ==
  ASSUME TypeOK, Control, KeyStage, [Next]_vars
  PROVE  \/ \E c \in Calls : ClaimKey(c)
         \/ /\ seen' = seen
            /\ \A d \in Calls : Keyed(d) => (Admitted(d)' <=> Admitted(d))
<1> DEFINE Same == seen' = seen /\ \A d \in Calls : Keyed(d) => (Admitted(d)' <=> Admitted(d))
<1> USE DEF TypeOK, Control, At, Goto, Return, Admitted, Working
<1>1. ASSUME NEW c \in Calls, DenyAcl(c) PROVE Same
  BY <1>1 DEF DenyAcl
<1>2. ASSUME NEW c \in Calls, NoProvider(c) PROVE Same
  BY <1>2 DEF NoProvider
<1>3. ASSUME NEW c \in Calls, Accept(c) PROVE Same
  BY <1>3 DEF Accept
<1>5. ASSUME NEW c \in Calls, RejectDuplicate(c) PROVE Same
  BY <1>5 DEF RejectDuplicate
<1>6. ASSUME NEW c \in Calls, ProviderTakes(c) PROVE Same
  BY <1>6 DEF ProviderTakes
<1>7. ASSUME NEW c \in Calls, AttemptSucceeds(c) PROVE Same
  BY <1>7 DEF AttemptSucceeds
<1>8. ASSUME NEW c \in Calls, NEW err \in Errors, AttemptFails(c, err) PROVE Same
  BY <1>8 DEF AttemptFails
<1>9. ASSUME NEW c \in Calls, Wake(c) PROVE Same
  BY <1>9 DEF Wake
<1>10. ASSUME NEW c \in Calls, RecordOut(c) PROVE Same
  BY <1>10 DEF RecordOut
<1>11. ASSUME NEW c \in Calls, RecordFailed(c) PROVE Same
  BY <1>11 DEF RecordFailed
<1>12. ASSUME NEW c \in Calls, DlqReturns(c) PROVE Same
  BY <1>12 DEF DlqReturns
<1>13. ASSUME NEW c \in Calls, RecordDlq(c) PROVE Same
  BY <1>13 DEF RecordDlq
<1>14. ASSUME NEW c \in Calls, Drop(c) PROVE Same
  BY <1>14 DEF Drop
<1>15. CASE UNCHANGED vars
  BY <1>15 DEF vars
<1>16. QED
  BY <1>1, <1>2, <1>3, <1>5, <1>6, <1>7, <1>8, <1>9, <1>10, <1>11,
     <1>12, <1>13, <1>14, <1>15 DEF Next, Progress

\* What ClaimKey does to the calls that hold keys.
LEMMA ClaimAdmits ==
  ASSUME TypeOK, Control, NEW c \in Calls, ClaimKey(c)
  PROVE  /\ ~Admitted(c) /\ Admitted(c)'
         /\ \A d \in Calls \ {c} : Admitted(d)' <=> Admitted(d)
         /\ ComposedKey(Event[c]) \notin seen
         /\ seen' = seen \cup {ComposedKey(Event[c])}
BY DEF TypeOK, Control, ClaimKey, At, Goto, Admitted, Working

LEMMA KeysHeldStep ==
  TypeOK /\ Control /\ KeyStage /\ KeysHeld /\ [Next]_vars => KeysHeld'
<1> SUFFICES ASSUME TypeOK, Control, KeyStage, KeysHeld, [Next]_vars PROVE KeysHeld'
  OBVIOUS
<1>1. ASSUME NEW c \in Calls, ClaimKey(c) PROVE KeysHeld'
  <2>1. Keyed(c)
    BY <1>1 DEF KeyStage, ClaimKey, At
  <2>2. /\ ~Admitted(c) /\ Admitted(c)'
        /\ \A d \in Calls \ {c} : Admitted(d)' <=> Admitted(d)
        /\ ComposedKey(Event[c]) \notin seen
        /\ seen' = seen \cup {ComposedKey(Event[c])}
    BY <1>1, ClaimAdmits
  <2>3. (\A d \in Calls : Keyed(d) /\ Admitted(d) => ComposedKey(Event[d]) \in seen)'
    BY <2>2 DEF KeysHeld, Keyed
  <2>4. (\A k \in seen : \E d \in Calls :
           Keyed(d) /\ Admitted(d) /\ ComposedKey(Event[d]) = k)'
    <3>1. ASSUME NEW k \in seen PROVE
            \E d \in Calls : Keyed(d) /\ Admitted(d)' /\ ComposedKey(Event[d]) = k
      BY <2>2 DEF KeysHeld
    <3>2. QED
      BY <2>1, <2>2, <3>1 DEF Keyed, ComposedKey
  <2>5. ASSUME NEW d \in Calls, NEW e \in Calls, d # e, Keyed(d), Keyed(e),
               Admitted(d)', Admitted(e)'
        PROVE  ComposedKey(Event[d]) # ComposedKey(Event[e])
    BY <2>2, <2>5 DEF KeysHeld
  <2>6. QED
    BY <2>3, <2>4, <2>5 DEF KeysHeld, Keyed, ComposedKey
<1>2. CASE /\ seen' = seen
           /\ \A d \in Calls : Keyed(d) => (Admitted(d)' <=> Admitted(d))
  BY <1>2 DEF KeysHeld, Keyed, ComposedKey
<1>3. QED
  BY <1>1, <1>2, AdmissionStep

LEMMA GateStep ==
  TypeOK /\ Control /\ KeyStage /\ Gate /\ [Next]_vars => Gate'
<1> SUFFICES ASSUME TypeOK, Control, KeyStage, Gate, [Next]_vars PROVE Gate'
  OBVIOUS
<1> USE DEF TypeOK, Control, Gate, At, Goto, Return, HandedOver, Admitted, Working, Keyed
<1>1. ASSUME NEW c \in Calls, DenyAcl(c) PROVE Gate'
  BY <1>1 DEF DenyAcl
<1>2. ASSUME NEW c \in Calls, NoProvider(c) PROVE Gate'
  BY <1>2 DEF NoProvider
<1>3. ASSUME NEW c \in Calls, Accept(c) PROVE Gate'
  BY <1>3 DEF Accept
<1>4. ASSUME NEW c \in Calls, ClaimKey(c) PROVE Gate'
  BY <1>4 DEF ClaimKey
<1>5. ASSUME NEW c \in Calls, RejectDuplicate(c) PROVE Gate'
  <2>1. Keyed(c) /\ ComposedKey(Event[c]) \in seen /\ ~Admitted(c)'
    BY <1>5 DEF RejectDuplicate, KeyStage
  <2>2. \A d \in Calls \ {c} : /\ result'[d] = result[d]
                               /\ Admitted(d)' <=> Admitted(d)
    BY <1>5 DEF RejectDuplicate
  <2>3. seen' = seen /\ copies' = copies /\ letters' = letters
    BY <1>5 DEF RejectDuplicate
  <2>4. ~Admitted(c)
    BY <1>5 DEF RejectDuplicate
  <2>5. QED
    BY <2>1, <2>2, <2>3, <2>4 DEF ComposedKey
<1>6. ASSUME NEW c \in Calls, ProviderTakes(c) PROVE Gate'
  <2>1. Admitted(c) /\ \A d \in Calls : Admitted(d)' <=> Admitted(d)
    BY <1>6 DEF ProviderTakes
  <2>2. \A d \in Calls \ {c} : copies'[d] = copies[d] /\ letters'[d] = letters[d]
    BY <1>6 DEF ProviderTakes
  <2>3. seen' = seen /\ result' = result
    BY <1>6 DEF ProviderTakes
  <2>4. QED
    BY <2>1, <2>2, <2>3 DEF ComposedKey
<1>7. ASSUME NEW c \in Calls, AttemptSucceeds(c) PROVE Gate'
  BY <1>7 DEF AttemptSucceeds
<1>8. ASSUME NEW c \in Calls, NEW err \in Errors, AttemptFails(c, err) PROVE Gate'
  BY <1>8 DEF AttemptFails
<1>9. ASSUME NEW c \in Calls, Wake(c) PROVE Gate'
  BY <1>9 DEF Wake
<1>10. ASSUME NEW c \in Calls, RecordOut(c) PROVE Gate'
  BY <1>10 DEF RecordOut
<1>11. ASSUME NEW c \in Calls, RecordFailed(c) PROVE Gate'
  BY <1>11 DEF RecordFailed
<1>12. ASSUME NEW c \in Calls, DlqReturns(c) PROVE Gate'
  BY <1>12 DEF DlqReturns
<1>13. ASSUME NEW c \in Calls, RecordDlq(c) PROVE Gate'
  BY <1>13 DEF RecordDlq
<1>14. ASSUME NEW c \in Calls, Drop(c) PROVE Gate'
  BY <1>14 DEF Drop
<1>15. CASE UNCHANGED vars
  BY <1>15 DEF vars
<1>16. QED
  BY <1>1, <1>2, <1>3, <1>4, <1>5, <1>6, <1>7, <1>8, <1>9, <1>10, <1>11,
     <1>12, <1>13, <1>14, <1>15 DEF Next, Progress

LEMMA KeyInvInit == Init => KeyInv
BY TypeInit DEF Init, KeyInv, KeyStage, Control, KeysHeld, Gate, Admitted, Working, HandedOver

LEMMA KeyInvStep == KeyInv /\ [Next]_vars => KeyInv'
BY TypeStep, KeyStageStep, ControlStep, KeysHeldStep, GateStep DEF KeyInv

\* Envelopes of one identity compose to one key.
LEMMA IdentityComposes ==
  ASSUME NEW c \in Calls, NEW d \in Calls, SameIdentity(c, d)
  PROVE  c # d /\ Keyed(c) /\ Keyed(d) /\ ComposedKey(Event[c]) = ComposedKey(Event[d])
BY DEF SameIdentity, Keyed, ComposedKey

\* Among the calls with one tenant and key, one at most reaches a provider.
THEOREM KeyExclusion == Spec => []OneCallPerKey
<1>1. KeyInv => OneCallPerKey
  BY IdentityComposes DEF KeyInv, KeysHeld, Gate, OneCallPerKey
<1>2. QED
  BY <1>1, KeyInvInit, KeyInvStep, PTL DEF Spec

\* A duplicate is refused for another call of its tenant with its key.
THEOREM DuplicateExplained == Spec => []DuplicateHasHolder
<1>1. KeyInv => DuplicateHasHolder
  <2>1. SUFFICES ASSUME KeyInv, NEW c \in Calls, result[c] = "duplicate"
                 PROVE  \E d \in Calls : SameIdentity(c, d) /\ Admitted(d)
    BY DEF DuplicateHasHolder
  <2>2. Keyed(c) /\ ComposedKey(Event[c]) \in seen /\ ~Admitted(c)
    BY <2>1 DEF KeyInv, Gate
  <2>3. PICK d \in Calls : /\ Keyed(d) /\ Admitted(d)
                           /\ ComposedKey(Event[d]) = ComposedKey(Event[c])
    BY <2>1, <2>2 DEF KeyInv, KeysHeld
  <2>4. Event[c].tenant = Event[d].tenant /\ Event[c].key = Event[d].key
    BY <2>2, <2>3, ComposedKeyInjective
  <2>5. QED
    BY <2>2, <2>3, <2>4 DEF SameIdentity
<1>2. QED
  BY <1>1, KeyInvInit, KeyInvStep, PTL DEF Spec

---------------------------------------------------------------------------
(* The counters *)

Duplicates == {c \in Calls : result[c] = "duplicate"}

Undecided ==
  {c \in Calls : pc[c] \in
     {"recordKey", "calling", "sleeping", "recordOut", "recordFailed"}}

AtLetter == {c \in Calls : pc[c] \in {"dlqCalling", "recordDlq"}}

\* The counted sets are finite although there may be infinitely many calls:
\* a step moves one call.
MetricsInv ==
  /\ IsFiniteSet(Duplicates) /\ IsFiniteSet(Undecided) /\ IsFiniteSet(AtLetter)
  /\ metrics.in = metrics.out + metrics.failed
       + Cardinality(Duplicates) + Cardinality(Undecided)
  /\ metrics.failed = metrics.dlq + Cardinality(AtLetter)

LEMMA OneMore ==
  ASSUME NEW S, NEW x, x \notin S, IsFiniteSet(S)
  PROVE  /\ IsFiniteSet(S \cup {x})
         /\ Cardinality(S) \in Nat
         /\ Cardinality(S \cup {x}) = Cardinality(S) + 1
BY FS_AddElement, FS_CardinalityType

LEMMA OneLess ==
  ASSUME NEW S, NEW x \in S, IsFiniteSet(S)
  PROVE  /\ IsFiniteSet(S \ {x})
         /\ Cardinality(S) \in Nat /\ Cardinality(S \ {x}) \in Nat
         /\ Cardinality(S) = Cardinality(S \ {x}) + 1
<1>1. IsFiniteSet(S \ {x}) /\ Cardinality(S \ {x}) = Cardinality(S) - 1
  BY FS_RemoveElement
<1>2. Cardinality(S) \in Nat /\ Cardinality(S \ {x}) \in Nat
  BY <1>1, FS_CardinalityType
<1> QED
  BY <1>1, <1>2

\* What counting one event does to the four counters.
LEMMA Counted ==
  ASSUME TypeOK, NEW counter \in {"in", "out", "failed", "dlq"}, Count(counter)
  PROVE  /\ metrics.in \in Nat /\ metrics.out \in Nat
         /\ metrics.failed \in Nat /\ metrics.dlq \in Nat
         /\ metrics'.in = IF counter = "in" THEN metrics.in + 1 ELSE metrics.in
         /\ metrics'.out = IF counter = "out" THEN metrics.out + 1 ELSE metrics.out
         /\ metrics'.failed =
              IF counter = "failed" THEN metrics.failed + 1 ELSE metrics.failed
         /\ metrics'.dlq = IF counter = "dlq" THEN metrics.dlq + 1 ELSE metrics.dlq
BY DEF TypeOK, Count

LEMMA MetricsUnmoved ==
  ASSUME MetricsInv,
         UNCHANGED metrics, Duplicates' = Duplicates,
         Undecided' = Undecided, AtLetter' = AtLetter
  PROVE  MetricsInv'
BY DEF MetricsInv

LEMMA MetricsStep == TypeOK /\ Control /\ MetricsInv /\ [Next]_vars => MetricsInv'
<1> SUFFICES ASSUME TypeOK, Control, MetricsInv, [Next]_vars PROVE MetricsInv'
  OBVIOUS
<1> DEFINE Still ==
      /\ UNCHANGED metrics
      /\ Duplicates' = Duplicates /\ Undecided' = Undecided /\ AtLetter' = AtLetter
<1>0. Still => MetricsInv'
  BY MetricsUnmoved
<1>f. /\ IsFiniteSet(Duplicates) /\ IsFiniteSet(Undecided) /\ IsFiniteSet(AtLetter)
      /\ Cardinality(Duplicates) \in Nat /\ Cardinality(Undecided) \in Nat
      /\ Cardinality(AtLetter) \in Nat
      /\ metrics.in = metrics.out + metrics.failed
           + Cardinality(Duplicates) + Cardinality(Undecided)
      /\ metrics.failed = metrics.dlq + Cardinality(AtLetter)
  BY FS_CardinalityType DEF MetricsInv
<1> USE DEF At, Goto, Return
<1>1. ASSUME NEW c \in Calls, DenyAcl(c) \/ NoProvider(c) PROVE Still
  BY <1>1 DEF DenyAcl, NoProvider, TypeOK, Duplicates, Undecided, AtLetter
<1>2. ASSUME NEW c \in Calls, ClaimKey(c) PROVE Still
  BY <1>2 DEF ClaimKey, TypeOK, Duplicates, Undecided, AtLetter
<1>3. ASSUME NEW c \in Calls, ProviderTakes(c) PROVE Still
  BY <1>3 DEF ProviderTakes, Duplicates, Undecided, AtLetter
<1>4. ASSUME NEW c \in Calls, AttemptSucceeds(c) \/ Wake(c) PROVE Still
  BY <1>4 DEF AttemptSucceeds, Wake, TypeOK, Duplicates, Undecided, AtLetter
<1>5. ASSUME NEW c \in Calls, NEW err \in Errors, AttemptFails(c, err) PROVE Still
  <2>1. UNCHANGED <<metrics, result>> /\ pc[c] = "calling"
        /\ \E next \in {"recordFailed", "sleeping"} : pc' = [pc EXCEPT ![c] = next]
    BY <1>5 DEF AttemptFails
  <2> QED
    BY <2>1 DEF TypeOK, Duplicates, Undecided, AtLetter
<1>6. ASSUME NEW c \in Calls, DlqReturns(c) PROVE Still
  BY <1>6 DEF DlqReturns, TypeOK, Duplicates, Undecided, AtLetter
<1>7. ASSUME NEW c \in Calls, Drop(c) PROVE Still
  BY <1>7 DEF Drop, TypeOK, Duplicates, Undecided, AtLetter
<1>8. CASE UNCHANGED vars
  BY <1>0, <1>8 DEF vars, Duplicates, Undecided, AtLetter
<1>9. ASSUME NEW c \in Calls, Accept(c) PROVE MetricsInv'
  <2>1. /\ pc[c] = "idle" /\ result' = result /\ Count("in")
        /\ \E next \in {"recordKey", "calling"} : pc' = [pc EXCEPT ![c] = next]
    BY <1>9 DEF Accept
  <2>2. /\ Undecided' = Undecided \cup {c} /\ c \notin Undecided
        /\ Duplicates' = Duplicates /\ AtLetter' = AtLetter
    BY <2>1 DEF TypeOK, Duplicates, Undecided, AtLetter
  <2>3. /\ IsFiniteSet(Undecided')
        /\ Cardinality(Undecided') = Cardinality(Undecided) + 1
    BY <1>f, <2>2, OneMore
  <2>4. /\ metrics'.in = metrics.in + 1 /\ metrics'.out = metrics.out
        /\ metrics'.failed = metrics.failed /\ metrics'.dlq = metrics.dlq
        /\ metrics.out \in Nat /\ metrics.failed \in Nat
    BY <2>1, Counted
  <2> QED
    BY <1>f, <2>2, <2>3, <2>4 DEF MetricsInv
<1>10. ASSUME NEW c \in Calls, RejectDuplicate(c) PROVE MetricsInv'
  <2>1. /\ Undecided' = Undecided \ {c} /\ c \in Undecided
        /\ Duplicates' = Duplicates \cup {c} /\ c \notin Duplicates
        /\ AtLetter' = AtLetter /\ metrics' = metrics
    BY <1>10 DEF RejectDuplicate, TypeOK, Duplicates, Undecided, AtLetter
  <2>2. /\ IsFiniteSet(Undecided') /\ Cardinality(Undecided') \in Nat
        /\ Cardinality(Undecided) = Cardinality(Undecided') + 1
    BY <1>f, <2>1, OneLess
  <2>3. /\ IsFiniteSet(Duplicates')
        /\ Cardinality(Duplicates') = Cardinality(Duplicates) + 1
    BY <1>f, <2>1, OneMore
  <2>4. metrics.out \in Nat /\ metrics.failed \in Nat
    BY DEF TypeOK
  <2> QED
    BY <1>f, <2>1, <2>2, <2>3, <2>4 DEF MetricsInv
<1>11. ASSUME NEW c \in Calls, RecordOut(c) PROVE MetricsInv'
  <2>1. /\ Undecided' = Undecided \ {c} /\ c \in Undecided
        /\ Duplicates' = Duplicates /\ AtLetter' = AtLetter
        /\ Count("out")
    BY <1>11 DEF RecordOut, TypeOK, Duplicates, Undecided, AtLetter
  <2>2. /\ IsFiniteSet(Undecided') /\ Cardinality(Undecided') \in Nat
        /\ Cardinality(Undecided) = Cardinality(Undecided') + 1
    BY <1>f, <2>1, OneLess
  <2>3. /\ metrics'.in = metrics.in /\ metrics'.out = metrics.out + 1
        /\ metrics'.failed = metrics.failed /\ metrics'.dlq = metrics.dlq
        /\ metrics.out \in Nat /\ metrics.failed \in Nat
    BY <2>1, Counted
  <2> QED
    BY <1>f, <2>1, <2>2, <2>3 DEF MetricsInv
<1>12. ASSUME NEW c \in Calls, RecordFailed(c) PROVE MetricsInv'
  <2>1. /\ Undecided' = Undecided \ {c} /\ c \in Undecided
        /\ AtLetter' = AtLetter \cup {c} /\ c \notin AtLetter
        /\ Duplicates' = Duplicates /\ Count("failed")
    BY <1>12 DEF RecordFailed, TypeOK, Duplicates, Undecided, AtLetter
  <2>2. /\ IsFiniteSet(Undecided') /\ Cardinality(Undecided') \in Nat
        /\ Cardinality(Undecided) = Cardinality(Undecided') + 1
    BY <1>f, <2>1, OneLess
  <2>3. /\ IsFiniteSet(AtLetter')
        /\ Cardinality(AtLetter') = Cardinality(AtLetter) + 1
    BY <1>f, <2>1, OneMore
  <2>4. /\ metrics'.in = metrics.in /\ metrics'.out = metrics.out
        /\ metrics'.failed = metrics.failed + 1 /\ metrics'.dlq = metrics.dlq
        /\ metrics.out \in Nat /\ metrics.failed \in Nat /\ metrics.dlq \in Nat
    BY <2>1, Counted
  <2> QED
    BY <1>f, <2>1, <2>2, <2>3, <2>4 DEF MetricsInv
<1>13. ASSUME NEW c \in Calls, RecordDlq(c) PROVE MetricsInv'
  <2>1. /\ AtLetter' = AtLetter \ {c} /\ c \in AtLetter
        /\ Undecided' = Undecided /\ Duplicates' = Duplicates /\ Count("dlq")
    BY <1>13 DEF RecordDlq, TypeOK, Duplicates, Undecided, AtLetter
  <2>2. /\ IsFiniteSet(AtLetter') /\ Cardinality(AtLetter') \in Nat
        /\ Cardinality(AtLetter) = Cardinality(AtLetter') + 1
    BY <1>f, <2>1, OneLess
  <2>3. /\ metrics'.in = metrics.in /\ metrics'.out = metrics.out
        /\ metrics'.failed = metrics.failed /\ metrics'.dlq = metrics.dlq + 1
        /\ metrics.dlq \in Nat
    BY <2>1, Counted
  <2> QED
    BY <1>f, <2>1, <2>2, <2>3 DEF MetricsInv
<1> QED
  BY <1>0, <1>1, <1>2, <1>3, <1>4, <1>5, <1>6, <1>7, <1>8, <1>9, <1>10, <1>11,
     <1>12, <1>13 DEF Next, Progress

\* The counters of EventMetrics account for every event, however the calls
\* interleave and wherever they are dropped.
THEOREM MetricsAccount == Spec => []MetricsBalance
<1>1. Init => KeyInv /\ MetricsInv
  <2> SUFFICES ASSUME Init PROVE KeyInv /\ MetricsInv
    OBVIOUS
  <2>1. Duplicates = {} /\ Undecided = {} /\ AtLetter = {}
    BY DEF Init, Duplicates, Undecided, AtLetter
  <2> QED
    BY <2>1, KeyInvInit, FS_EmptySet DEF Init, MetricsInv
<1>2. (KeyInv /\ MetricsInv) /\ [Next]_vars => (KeyInv /\ MetricsInv)'
  BY KeyInvStep, MetricsStep DEF KeyInv
<1>3. MetricsInv => MetricsBalance
  BY DEF MetricsInv, MetricsBalance, Duplicates, Undecided, AtLetter
<1> QED
  BY <1>1, <1>2, <1>3, PTL DEF Spec

---------------------------------------------------------------------------
(* Routing and retries *)

LEMMA RouteStep == TypeOK /\ RouteInv /\ [Next]_vars => RouteInv'
<1> SUFFICES ASSUME TypeOK, RouteInv, [Next]_vars PROVE RouteInv'
  OBVIOUS
<1>1. ASSUME NEW c \in Calls, Accept(c) PROVE RouteInv'
  BY <1>1 DEF TypeOK, RouteInv, Accept
<1>2. CASE provider' = provider
  BY <1>2 DEF RouteInv
<1>3. QED
  BY <1>1, <1>2 DEF Next, Progress, vars, DenyAcl, NoProvider, ClaimKey, RejectDuplicate,
     ProviderTakes, AttemptSucceeds, AttemptFails, Wake, RecordOut, RecordFailed,
     DlqReturns, RecordDlq, Drop

\* Nothing of a call has changed.
Untouched(d) ==
  /\ pc'[d] = pc[d] /\ result'[d] = result[d] /\ provider'[d] = provider[d]
  /\ attempt'[d] = attempt[d] /\ lastErr'[d] = lastErr[d] /\ taken'[d] = taken[d]
  /\ copies'[d] = copies[d] /\ letters'[d] = letters[d]

LEMMA UntouchedRetry ==
  ASSUME NEW d \in Calls, RetryOf(d), Untouched(d) PROVE RetryOf(d)'
BY Zenon DEF RetryOf, Untouched, Fresh, Loop, Policy, GivesUp, IsRetryable

LEMMA RetryStep == TypeOK /\ Control /\ RetryInv /\ [Next]_vars => RetryInv'
<1> SUFFICES ASSUME TypeOK, Control, RetryInv, [Next]_vars PROVE RetryInv'
  OBVIOUS
<1>0. ASSUME NEW c \in Calls, RetryOf(c)', \A d \in Calls \ {c} : Untouched(d)
      PROVE  RetryInv'
  BY <1>0, UntouchedRetry DEF RetryInv
<1>b. ASSUME NEW c \in Calls, provider[c] # 0
      PROVE  Policy(c).maxRetries \in Nat
  <2>1. provider[c] \in 1 .. Len(Registrations)
    BY <1>b, ConfigAssumption, LenProperties DEF TypeOK
  <2>2. QED
    BY <2>1, BudgetType DEF Policy
<1> USE DEF At, Goto, Return
<1>1. ASSUME NEW c \in Calls, DenyAcl(c) PROVE RetryInv'
  <2>1. \A d \in Calls \ {c} : Untouched(d)
    BY <1>1 DEF DenyAcl, Untouched, TypeOK
  <2>2. RetryOf(c)'
    BY <1>1 DEF DenyAcl, RetryInv, RetryOf, Fresh, Loop, TypeOK
  <2>3. QED
    BY <1>0, <2>1, <2>2
<1>2. ASSUME NEW c \in Calls, NoProvider(c) PROVE RetryInv'
  <2>1. \A d \in Calls \ {c} : Untouched(d)
    BY <1>2 DEF NoProvider, Untouched, TypeOK
  <2>2. RetryOf(c)'
    BY <1>2 DEF NoProvider, RetryInv, RetryOf, Fresh, Loop, TypeOK
  <2>3. QED
    BY <1>0, <2>1, <2>2
<1>3. ASSUME NEW c \in Calls, Accept(c) PROVE RetryInv'
  <2>1. \A d \in Calls \ {c} : Untouched(d)
    BY <1>3 DEF Accept, Untouched, TypeOK
  <2>2. /\ ProviderForTopic(Event[c].topic) \in 1 .. Len(Registrations)
        /\ Registrations[ProviderForTopic(Event[c].topic)].maxRetries \in Nat
    BY <1>3, Routed, BudgetType DEF Accept
  <2>3. Fresh(c)
    BY <1>3 DEF RetryInv, RetryOf, Loop, Accept
  <2>4. provider'[c] # 0 /\ Policy(c)'.maxRetries \in Nat
    BY <1>3, <2>2 DEF Accept, Policy, TypeOK
  <2>5. Fresh(c)' /\ pc'[c] \in {"recordKey", "calling"} /\ result'[c] = "none"
    BY <1>3, <2>3 DEF Accept, Fresh, TypeOK
  <2>6. Loop(c)'
    BY <2>4, <2>5 DEF Loop, Fresh
  <2>7. QED
    BY <1>0, <2>1, <2>4, <2>5, <2>6 DEF RetryOf
<1>4. ASSUME NEW c \in Calls, ClaimKey(c) PROVE RetryInv'
  <2>1. \A d \in Calls \ {c} : Untouched(d)
    BY <1>4 DEF ClaimKey, Untouched, TypeOK
  <2>2. provider[c] # 0 /\ Loop(c) /\ Policy(c).maxRetries \in Nat
    BY <1>4, <1>b DEF ClaimKey, RetryInv, RetryOf
  <2>3. provider' = provider
    BY <1>4 DEF ClaimKey
  <2>4. RetryOf(c)'
    BY <1>4, <2>2, <2>3 DEF ClaimKey, RetryOf, Fresh, Loop, Policy, GivesUp, TypeOK, Control
  <2>5. QED
    BY <1>0, <2>1, <2>4
<1>5. ASSUME NEW c \in Calls, RejectDuplicate(c) PROVE RetryInv'
  <2>1. \A d \in Calls \ {c} : Untouched(d)
    BY <1>5 DEF RejectDuplicate, Untouched, TypeOK
  <2>2. provider[c] # 0 /\ Loop(c) /\ Policy(c).maxRetries \in Nat
    BY <1>5, <1>b DEF RejectDuplicate, RetryInv, RetryOf
  <2>3. provider' = provider
    BY <1>5 DEF RejectDuplicate
  <2>4. RetryOf(c)'
    BY <1>5, <2>2, <2>3 DEF RejectDuplicate, RetryOf, Fresh, Loop, Policy, GivesUp, TypeOK, Control
  <2>5. QED
    BY <1>0, <2>1, <2>4
<1>6. ASSUME NEW c \in Calls, ProviderTakes(c) PROVE RetryInv'
  <2>1. \A d \in Calls \ {c} : Untouched(d)
    BY <1>6 DEF ProviderTakes, Untouched, TypeOK
  <2>2. provider[c] # 0 /\ Loop(c) /\ Policy(c).maxRetries \in Nat
    BY <1>6, <1>b DEF ProviderTakes, RetryInv, RetryOf
  <2>3. provider' = provider
    BY <1>6 DEF ProviderTakes
  <2>4. CASE pc[c] = "calling"
    <3>1. /\ copies'[c] = copies[c] + 1 /\ taken'[c] /\ ~taken[c]
          /\ pc' = pc /\ result' = result /\ attempt' = attempt
          /\ lastErr' = lastErr /\ letters' = letters /\ result[c] = "none"
      BY <1>6, <2>4 DEF ProviderTakes, TypeOK
    <3>2. copies[c] \in Nat /\ attempt[c] \in Nat
      BY DEF TypeOK
    <3>3. Loop(c)'
      BY <2>2, <2>3, <2>4, <3>1, <3>2 DEF Loop, Policy
    <3>4. QED
      BY <1>0, <2>1, <2>2, <2>3, <2>4, <3>1, <3>3 DEF RetryOf
  <2>5. CASE pc[c] # "calling"
    <3>1. /\ letters'[c] = letters[c] + 1 /\ taken'[c] /\ ~taken[c]
          /\ pc' = pc /\ result' = result /\ attempt' = attempt
          /\ lastErr' = lastErr /\ copies' = copies
          /\ pc[c] = "dlqCalling" /\ result[c] = "none"
      BY <1>6, <2>5 DEF ProviderTakes, TypeOK
    <3>2. GivesUp(c, lastErr[c])'
      BY <2>2, <2>3, <3>1 DEF Loop, GivesUp, Policy
    <3>3. Loop(c)'
      BY <2>2, <2>3, <3>1, <3>2 DEF Loop, Policy
    <3>4. QED
      BY <1>0, <2>1, <2>2, <2>3, <3>1, <3>3 DEF RetryOf
  <2>6. QED
    BY <2>4, <2>5
<1>7. ASSUME NEW c \in Calls, AttemptSucceeds(c) PROVE RetryInv'
  <2>1. \A d \in Calls \ {c} : Untouched(d)
    BY <1>7 DEF AttemptSucceeds, Untouched, TypeOK
  <2>2. provider[c] # 0 /\ Loop(c) /\ Policy(c).maxRetries \in Nat
    BY <1>7, <1>b DEF AttemptSucceeds, RetryInv, RetryOf
  <2>3. provider' = provider
    BY <1>7 DEF AttemptSucceeds
  <2>4. RetryOf(c)'
    BY <1>7, <2>2, <2>3 DEF AttemptSucceeds, RetryOf, Fresh, Loop, Policy, GivesUp, TypeOK, Control
  <2>5. QED
    BY <1>0, <2>1, <2>4
<1>8. ASSUME NEW c \in Calls, NEW err \in Errors, AttemptFails(c, err) PROVE RetryInv'
  <2>1. \A d \in Calls \ {c} : Untouched(d)
    BY <1>8 DEF AttemptFails, Untouched, TypeOK
  <2>2. provider[c] # 0 /\ Loop(c) /\ Policy(c).maxRetries \in Nat
    BY <1>8, <1>b DEF AttemptFails, RetryInv, RetryOf
  <2>3. provider' = provider
    BY <1>8 DEF AttemptFails
  <2>4. RetryOf(c)'
    BY <1>8, <2>2, <2>3 DEF AttemptFails, RetryOf, Fresh, Loop, Policy, GivesUp, TypeOK, Control
  <2>5. QED
    BY <1>0, <2>1, <2>4
<1>9. ASSUME NEW c \in Calls, Wake(c) PROVE RetryInv'
  <2>1. \A d \in Calls \ {c} : Untouched(d)
    BY <1>9 DEF Wake, Untouched, TypeOK
  <2>2. provider[c] # 0 /\ Loop(c) /\ Policy(c).maxRetries \in Nat
    BY <1>9, <1>b DEF Wake, RetryInv, RetryOf
  <2>3. provider' = provider
    BY <1>9 DEF Wake
  <2>4. RetryOf(c)'
    BY <1>9, <2>2, <2>3 DEF Wake, RetryOf, Fresh, Loop, Policy, GivesUp, TypeOK, Control
  <2>5. QED
    BY <1>0, <2>1, <2>4
<1>10. ASSUME NEW c \in Calls, RecordOut(c) PROVE RetryInv'
  <2>1. \A d \in Calls \ {c} : Untouched(d)
    BY <1>10 DEF RecordOut, Untouched, TypeOK
  <2>2. provider[c] # 0 /\ Loop(c) /\ Policy(c).maxRetries \in Nat
    BY <1>10, <1>b DEF RecordOut, RetryInv, RetryOf
  <2>3. provider' = provider
    BY <1>10 DEF RecordOut
  <2>4. RetryOf(c)'
    BY <1>10, <2>2, <2>3 DEF RecordOut, RetryOf, Fresh, Loop, Policy, GivesUp, TypeOK, Control
  <2>5. QED
    BY <1>0, <2>1, <2>4
<1>11. ASSUME NEW c \in Calls, RecordFailed(c) PROVE RetryInv'
  <2>1. \A d \in Calls \ {c} : Untouched(d)
    BY <1>11 DEF RecordFailed, Untouched, TypeOK
  <2>2. provider[c] # 0 /\ Loop(c) /\ Policy(c).maxRetries \in Nat
    BY <1>11, <1>b DEF RecordFailed, RetryInv, RetryOf
  <2>3. provider' = provider
    BY <1>11 DEF RecordFailed
  <2>4. RetryOf(c)'
    BY <1>11, <2>2, <2>3 DEF RecordFailed, RetryOf, Fresh, Loop, Policy, GivesUp, TypeOK, Control
  <2>5. QED
    BY <1>0, <2>1, <2>4
<1>12. ASSUME NEW c \in Calls, DlqReturns(c) PROVE RetryInv'
  <2>1. \A d \in Calls \ {c} : Untouched(d)
    BY <1>12 DEF DlqReturns, Untouched, TypeOK
  <2>2. provider[c] # 0 /\ Loop(c) /\ Policy(c).maxRetries \in Nat
    BY <1>12, <1>b DEF DlqReturns, RetryInv, RetryOf
  <2>3. provider' = provider
    BY <1>12 DEF DlqReturns
  <2>4. RetryOf(c)'
    BY <1>12, <2>2, <2>3 DEF DlqReturns, RetryOf, Fresh, Loop, Policy, GivesUp, TypeOK, Control
  <2>5. QED
    BY <1>0, <2>1, <2>4
<1>13. ASSUME NEW c \in Calls, RecordDlq(c) PROVE RetryInv'
  <2>1. \A d \in Calls \ {c} : Untouched(d)
    BY <1>13 DEF RecordDlq, Untouched, TypeOK
  <2>2. provider[c] # 0 /\ Loop(c) /\ Policy(c).maxRetries \in Nat
    BY <1>13, <1>b DEF RecordDlq, RetryInv, RetryOf
  <2>3. provider' = provider
    BY <1>13 DEF RecordDlq
  <2>4. RetryOf(c)'
    BY <1>13, <2>2, <2>3 DEF RecordDlq, RetryOf, Fresh, Loop, Policy, GivesUp, TypeOK, Control
  <2>5. QED
    BY <1>0, <2>1, <2>4
<1>14. ASSUME NEW c \in Calls, Drop(c) PROVE RetryInv'
  <2>1. \A d \in Calls \ {c} : Untouched(d)
    BY <1>14 DEF Drop, Untouched, TypeOK
  <2>2. provider[c] # 0 /\ Loop(c) /\ Policy(c).maxRetries \in Nat
    BY <1>14, <1>b DEF Drop, RetryInv, RetryOf
  <2>3. provider' = provider
    BY <1>14 DEF Drop
  <2>4. RetryOf(c)'
    BY <1>14, <2>2, <2>3 DEF Drop, RetryOf, Fresh, Loop, Policy, GivesUp, TypeOK, Control
  <2>5. QED
    BY <1>0, <2>1, <2>4
<1>15. CASE UNCHANGED vars
  BY <1>15, UntouchedRetry DEF vars, RetryInv, Untouched
<1>16. QED
  BY <1>1, <1>2, <1>3, <1>4, <1>5, <1>6, <1>7, <1>8, <1>9, <1>10, <1>11,
     <1>12, <1>13, <1>14, <1>15 DEF Next, Progress

---------------------------------------------------------------------------
(* The whole invariant and what follows from it *)

IInv == KeyInv /\ RouteInv /\ RetryInv

LEMMA IInvInit == Init => IInv
BY KeyInvInit DEF Init, IInv, RouteInv, RetryInv, RetryOf, Fresh

LEMMA IInvStep == IInv /\ [Next]_vars => IInv'
BY KeyInvStep, RouteStep, RetryStep DEF IInv, KeyInv

LEMMA Invariance == Spec => []IInv
BY IInvInit, IInvStep, PTL DEF Spec

\* A provider sees an event at most once more than its retry budget, and a
\* call only fails with the budget spent or on an error it must not retry.
THEOREM BudgetKept == Spec => []RetryBudget
<1>1. IInv => RetryBudget
  <2>1. SUFFICES ASSUME IInv, NEW c \in Calls, provider[c] # 0
        PROVE  /\ copies[c] <= Policy(c).maxRetries + 1
               /\ result[c] = "deliveryFailed" =>
                    \/ attempt[c] = Policy(c).maxRetries
                    \/ ~IsRetryable(Policy(c), lastErr[c])
    BY DEF RetryBudget
  <2>2. provider[c] \in 1 .. Len(Registrations) /\ copies[c] \in Nat /\ attempt[c] \in Nat
    BY <2>1, ConfigAssumption, LenProperties DEF IInv, KeyInv, TypeOK
  <2>3. Policy(c).maxRetries \in Nat
    BY <2>2, BudgetType DEF Policy
  <2>4. Loop(c)
    BY <2>1 DEF IInv, RetryInv, RetryOf
  <2>5. QED
    BY <2>2, <2>3, <2>4 DEF Loop, GivesUp
<1>2. QED
  BY <1>1, Invariance, PTL

\* An event that failed with an error outside retryable_errors is not tried
\* again.
THEOREM FatalErrorsEndRetries == Spec => NoAttemptAfterFatalError
<1> DEFINE Step == \A c \in Calls : copies'[c] # copies[c] =>
                     lastErr[c] = "none" \/ IsRetryable(Policy(c), lastErr[c])
<1>1. IInv /\ [Next]_vars => [Step]_vars
  <2>1. SUFFICES ASSUME IInv, Next, NEW d \in Calls, copies'[d] # copies[d]
        PROVE  lastErr[d] = "none" \/ IsRetryable(Policy(d), lastErr[d])
    OBVIOUS
  <2>2. ProviderTakes(d) /\ pc[d] = "calling"
    <3>1. ASSUME NEW c \in Calls, Progress(c) \/ Drop(c) PROVE copies' = copies
      BY <3>1 DEF Progress, DenyAcl, NoProvider, Accept, ClaimKey, RejectDuplicate,
         AttemptSucceeds, AttemptFails, Wake, RecordOut, RecordFailed, DlqReturns,
         RecordDlq, Drop
    <3>2. PICK c \in Calls : ProviderTakes(c)
      BY <2>1, <3>1 DEF Next
    <3>3. pc[c] = "calling" /\ copies' = [copies EXCEPT ![c] = @ + 1]
      BY <2>1, <3>2 DEF ProviderTakes
    <3>4. c = d
      BY <2>1, <3>3 DEF IInv, KeyInv, TypeOK
    <3> QED
      BY <3>2, <3>3, <3>4
  <2>3. QED
    BY <2>1, <2>2 DEF IInv, RetryInv, RetryOf, Loop
<1>2. QED
  BY <1>1, Invariance, PTL DEF Spec, NoAttemptAfterFatalError

\* The rule the code follows is the first that matches.
LEMMA FirstRule ==
  ASSUME NEW ev, AllowPublish(ev), RulesFor(ev) # {}
  PROVE  \E i \in RulesFor(ev) :
           /\ AclRules[i].allowPublish
           /\ \A j \in 1 .. (i - 1) : j \notin RulesFor(ev)
<1>1. RulesFor(ev) \subseteq Nat
  BY ConfigAssumption, LenProperties DEF RulesFor
<1>2. /\ First(RulesFor(ev)) \in RulesFor(ev)
      /\ \A j \in RulesFor(ev) : First(RulesFor(ev)) <= j
  BY <1>1, FirstIsLeast
<1>3. AclRules[First(RulesFor(ev))].allowPublish
  BY DEF AllowPublish
<1>4. \A j \in 1 .. (First(RulesFor(ev)) - 1) : j \notin RulesFor(ev)
  BY <1>1, <1>2
<1>5. QED
  BY <1>2, <1>3, <1>4

\* What a provider has seen is what the ACL and the routing order let through.
THEOREM ConfigurationKept == Spec => []TakenWhereConfigured
<1>1. IInv => TakenWhereConfigured
  <2>1. SUFFICES ASSUME IInv, NEW c \in Calls, HandedOver(c)
        PROVE  /\ \/ RulesFor(Event[c]) = {} /\ DefaultAllow
                  \/ \E i \in RulesFor(Event[c]) :
                       /\ AclRules[i].allowPublish
                       /\ \A j \in 1 .. (i - 1) : j \notin RulesFor(Event[c])
               /\ provider[c] \in Serving(Event[c].topic)
               /\ \A j \in 1 .. (provider[c] - 1) : j \notin Serving(Event[c].topic)
    BY DEF TakenWhereConfigured
  <2>2. provider[c] # 0
    BY <2>1 DEF IInv, RetryInv, RetryOf, Fresh, HandedOver
  <2>3. /\ AllowPublish(Event[c])
        /\ Serving(Event[c].topic) # {}
        /\ provider[c] = ProviderForTopic(Event[c].topic)
    BY <2>1, <2>2 DEF IInv, RouteInv
  <2>4. /\ provider[c] \in 1 .. Len(Registrations)
        /\ provider[c] \in Serving(Event[c].topic)
        /\ \A j \in Serving(Event[c].topic) : provider[c] <= j
    BY <2>3, Routed
  <2>5. RulesFor(Event[c]) = {} => DefaultAllow
    BY <2>3 DEF AllowPublish
  <2>6. \A j \in 1 .. (provider[c] - 1) : j \notin Serving(Event[c].topic)
    BY <2>4
  <2>7. QED
    BY <2>3, <2>4, <2>5, <2>6, FirstRule
<1>2. QED
  BY <1>1, Invariance, PTL

---------------------------------------------------------------------------
(* Refinement of PublishContract *)

Phase == [c \in Calls |-> PhaseOf(c)]

LEMMA RefineInit == Init => Contract!Init
BY DEF Init, Contract!Init, PhaseOf, Working

\* A step that moves one call moves its phase and no other.
LEMMA PhaseMoves ==
  ASSUME NEW c \in Calls, TypeOK,
         \A d \in Calls \ {c} : pc'[d] = pc[d] /\ result'[d] = result[d]
  PROVE  Phase' = [Phase EXCEPT ![c] = PhaseOf(c)']
<1>1. \A d \in Calls \ {c} : PhaseOf(d)' = PhaseOf(d)
  BY DEF PhaseOf
<1>2. QED
  BY <1>1 DEF Phase

\* A call has a claim in the contract exactly when it is admitted.
LEMMA ClaimedIsAdmitted ==
  ASSUME IInv, NEW d \in Calls
  PROVE  Contract!Claimed(d) <=> Admitted(d)
<1>1. pc[d] \in Stages /\ result[d] \in Results
  BY DEF IInv, KeyInv, TypeOK
<1>2. /\ pc[d] = "done" <=> result[d] \notin {"none", "dropped"}
      /\ result[d] = "dropped" => pc[d] \in {"calling", "sleeping", "dlqCalling"}
  BY DEF IInv, KeyInv, Control
<1>3. QED
  BY <1>1, <1>2 DEF Contract!Claimed, PhaseOf, Admitted, Working, Stages, Results

\* A rival in the contract is a call of the same identity.
LEMMA RivalsAre ==
  ASSUME NEW c \in Calls
  PROVE  [x \in Calls |-> {d \in Calls : SameIdentity(x, d)}][c]
           = {d \in Calls : SameIdentity(c, d)}
OBVIOUS

LEMMA RefineStep == IInv /\ [Next]_vars => [Contract!Next]_(Contract!vars)
<1> SUFFICES ASSUME IInv, [Next]_vars PROVE [Contract!Next]_(Contract!vars)
  OBVIOUS
<1>0. TypeOK
  BY DEF IInv, KeyInv
<1> DEFINE Goal == [Contract!Next]_(Contract!vars)
<1> USE DEF At, Goto, Return
<1>1. ASSUME NEW c \in Calls, Contract!End(c, "refused"), PhaseOf(c) = "new",
             c \in BarredCalls \/ \E d \in Calls : SameIdentity(c, d) /\ Admitted(d)
      PROVE  Goal
  <2>1. Contract!Refuse(c)
    BY <1>1, ClaimedIsAdmitted DEF Contract!Refuse
  <2>2. QED
    BY <2>1 DEF Contract!Next
<1>2. ASSUME NEW c \in Calls, Contract!End(c, "open"), PhaseOf(c) = "new",
             c \notin BarredCalls,
             \A d \in Calls : SameIdentity(c, d) => ~Admitted(d)
      PROVE  Goal
  <2>1. Contract!Open(c)
    BY <1>2, ClaimedIsAdmitted DEF Contract!Open
  <2>2. QED
    BY <2>1 DEF Contract!Next
<1>3. ASSUME NEW c \in Calls, DenyAcl(c) \/ NoProvider(c) PROVE Goal
  <2>1. PhaseOf(c) = "new" /\ PhaseOf(c)' = "refused" /\ c \in BarredCalls
    BY <1>0, <1>3 DEF DenyAcl, NoProvider, PhaseOf, Working, BarredCalls, TypeOK
  <2>2. Phase' = [Phase EXCEPT ![c] = "refused"]
    BY <1>0, <1>3, <2>1, PhaseMoves DEF DenyAcl, NoProvider, TypeOK
  <2>3. UNCHANGED <<copies, letters>>
    BY <1>3 DEF DenyAcl, NoProvider
  <2>4. QED
    BY <1>1, <2>1, <2>2, <2>3 DEF Contract!End, Phase
<1>4. ASSUME NEW c \in Calls, Accept(c) PROVE Goal
  <2>1. CASE Keyed(c)
    <3>1. PhaseOf(c)' = PhaseOf(c)
      BY <1>0, <1>4, <2>1 DEF Accept, PhaseOf, Working, TypeOK
    <3>2. Phase' = [Phase EXCEPT ![c] = PhaseOf(c)]
      BY <1>0, <1>4, <3>1, PhaseMoves DEF Accept, TypeOK
    <3>3. Phase' = Phase /\ UNCHANGED <<copies, letters>>
      BY <1>4, <3>2 DEF Phase, Accept
    <3>4. QED
      BY <3>3 DEF Contract!vars, Phase
  <2>2. CASE ~Keyed(c)
    <3>1. PhaseOf(c) = "new" /\ PhaseOf(c)' = "open" /\ c \notin BarredCalls
      BY <1>0, <1>4, <2>2 DEF Accept, PhaseOf, Working, BarredCalls, TypeOK
    <3>2. Phase' = [Phase EXCEPT ![c] = "open"]
      BY <1>0, <1>4, <3>1, PhaseMoves DEF Accept, TypeOK
    <3>3. UNCHANGED <<copies, letters>> /\ \A d \in Calls : ~SameIdentity(c, d)
      BY <1>4, <2>2 DEF Accept, SameIdentity
    <3>4. QED
      BY <1>2, <3>1, <3>2, <3>3 DEF Contract!End, Phase
  <2>3. QED
    BY <2>1, <2>2
<1>5. ASSUME NEW c \in Calls, ClaimKey(c) PROVE Goal
  <2>1. PhaseOf(c) = "new" /\ PhaseOf(c)' = "open"
    BY <1>0, <1>5 DEF ClaimKey, PhaseOf, Working, TypeOK
  <2>2. provider[c] # 0
    BY <1>5 DEF IInv, RetryInv, RetryOf, ClaimKey
  <2>3. c \notin BarredCalls
    BY <2>2 DEF IInv, RouteInv, BarredCalls
  <2>4. \A d \in Calls : SameIdentity(c, d) => ~Admitted(d)
    BY <1>5, IdentityComposes DEF IInv, KeyInv, KeysHeld, ClaimKey
  <2>5. Phase' = [Phase EXCEPT ![c] = "open"]
    BY <1>0, <1>5, <2>1, PhaseMoves DEF ClaimKey, TypeOK
  <2>6. UNCHANGED <<copies, letters>>
    BY <1>5 DEF ClaimKey
  <2>7. QED
    BY <1>2, <2>1, <2>3, <2>4, <2>5, <2>6 DEF Contract!End, Phase
<1>6. ASSUME NEW c \in Calls, RejectDuplicate(c) PROVE Goal
  <2>1. PhaseOf(c) = "new" /\ PhaseOf(c)' = "refused" /\ ~Admitted(c)
    BY <1>0, <1>6 DEF RejectDuplicate, PhaseOf, Working, TypeOK, Admitted
  <2>2. Keyed(c) /\ ComposedKey(Event[c]) \in seen
    BY <1>6 DEF IInv, KeyInv, KeyStage, RejectDuplicate
  <2>3. PICK d \in Calls : /\ Keyed(d) /\ Admitted(d)
                           /\ ComposedKey(Event[d]) = ComposedKey(Event[c])
    BY <2>2 DEF IInv, KeyInv, KeysHeld
  <2>4. SameIdentity(c, d) /\ Admitted(d)
    BY <2>1, <2>2, <2>3, ComposedKeyInjective DEF SameIdentity
  <2>5. Phase' = [Phase EXCEPT ![c] = "refused"]
    BY <1>0, <1>6, <2>1, PhaseMoves DEF RejectDuplicate, TypeOK
  <2>6. UNCHANGED <<copies, letters>>
    BY <1>6 DEF RejectDuplicate
  <2>7. QED
    BY <1>1, <2>1, <2>4, <2>5, <2>6 DEF Contract!End, Phase
<1>7. ASSUME NEW c \in Calls, ProviderTakes(c) PROVE Goal
  <2>1. PhaseOf(c) = "open" /\ Phase' = Phase
    BY <1>7 DEF ProviderTakes, PhaseOf, Working, Phase
  <2>2. provider[c] # 0 /\ Loop(c) /\ ~taken[c]
    BY <1>7 DEF IInv, RetryInv, RetryOf, ProviderTakes
  <2>3. CASE pc[c] = "calling"
    <3>1. provider[c] \in 1 .. Len(Registrations)
      BY <1>0, <2>2, ConfigAssumption, LenProperties DEF TypeOK
    <3>2. Policy(c).maxRetries \in Nat /\ attempt[c] \in Nat /\ copies[c] \in Nat
      BY <1>0, <3>1, BudgetType DEF Policy, TypeOK
    <3>3. BudgetOf(c) = Policy(c).maxRetries + 1
      BY <2>2 DEF IInv, RouteInv, BudgetOf, Policy
    <3>4. copies[c] < BudgetOf(c) /\ letters[c] = 0
      BY <2>2, <2>3, <3>2, <3>3 DEF Loop
    <3>5. copies' = [copies EXCEPT ![c] = @ + 1] /\ letters' = letters
      BY <1>7, <2>3 DEF ProviderTakes
    <3>6. Contract!Deliver(c)
      BY <2>1, <3>4, <3>5 DEF Contract!Deliver, Phase
    <3>7. QED
      BY <3>6 DEF Contract!Next
  <2>4. CASE pc[c] # "calling"
    <3>1. letters[c] = 0 /\ letters[c] + 1 = 1
      BY <1>7, <2>2, <2>4 DEF Loop, ProviderTakes
    <3>2. letters' = [letters EXCEPT ![c] = letters[c] + 1] /\ copies' = copies
      BY <1>7, <2>4 DEF ProviderTakes
    <3>3. letters' = [letters EXCEPT ![c] = 1]
      BY <3>1, <3>2
    <3>4. Contract!DeadLetter(c)
      BY <2>1, <3>1, <3>2, <3>3 DEF Contract!DeadLetter, Phase
    <3>5. QED
      BY <3>4 DEF Contract!Next
  <2>5. QED
    BY <2>3, <2>4
<1>8. ASSUME NEW c \in Calls,
             \/ AttemptSucceeds(c) \/ \E err \in Errors : AttemptFails(c, err)
             \/ Wake(c) \/ RecordFailed(c) \/ DlqReturns(c)
      PROVE  Goal
  <2>1. PhaseOf(c)' = PhaseOf(c)
    BY <1>0, <1>8 DEF AttemptSucceeds, AttemptFails, Wake, RecordFailed, DlqReturns,
       PhaseOf, Working, TypeOK
  <2>2. Phase' = [Phase EXCEPT ![c] = PhaseOf(c)]
    BY <1>0, <1>8, <2>1, PhaseMoves
       DEF AttemptSucceeds, AttemptFails, Wake, RecordFailed, DlqReturns, TypeOK
  <2>3. Phase' = Phase /\ UNCHANGED <<copies, letters>>
    BY <1>8, <2>2 DEF Phase, AttemptSucceeds, AttemptFails, Wake, RecordFailed, DlqReturns
  <2>4. QED
    BY <2>3 DEF Contract!vars, Phase
<1>9. ASSUME NEW c \in Calls, RecordOut(c) PROVE Goal
  <2>1. PhaseOf(c) = "open" /\ PhaseOf(c)' = "delivered"
    BY <1>0, <1>9 DEF RecordOut, PhaseOf, Working, TypeOK
  <2>2. copies[c] > 0 /\ letters[c] = 0
    BY <1>9 DEF IInv, RetryInv, RetryOf, Loop, RecordOut
  <2>3. Phase' = [Phase EXCEPT ![c] = "delivered"]
    BY <1>0, <1>9, <2>1, PhaseMoves DEF RecordOut, TypeOK
  <2>4. UNCHANGED <<copies, letters>>
    BY <1>9 DEF RecordOut
  <2>5. Contract!Succeed(c)
    BY <2>1, <2>2, <2>3, <2>4 DEF Contract!Succeed, Contract!End, Phase
  <2>6. QED
    BY <2>5 DEF Contract!Next
<1>10. ASSUME NEW c \in Calls, RecordDlq(c) \/ Drop(c) PROVE Goal
  <2>1. PhaseOf(c) = "open" /\ PhaseOf(c)' \in {"failed", "abandoned"}
    BY <1>0, <1>10 DEF RecordDlq, Drop, PhaseOf, Working, TypeOK
  <2>2. Phase' = [Phase EXCEPT ![c] = PhaseOf(c)']
    BY <1>0, <1>10, PhaseMoves DEF RecordDlq, Drop, TypeOK
  <2>3. UNCHANGED <<copies, letters>>
    BY <1>10 DEF RecordDlq, Drop
  <2>4. Contract!GiveUp(c)
    BY <2>1, <2>2, <2>3 DEF Contract!GiveUp, Contract!End, Phase
  <2>5. QED
    BY <2>4 DEF Contract!Next
<1>11. CASE UNCHANGED vars
  BY <1>11 DEF vars, Contract!vars, PhaseOf
<1>12. QED
  BY <1>3, <1>4, <1>5, <1>6, <1>7, <1>8, <1>9, <1>10, <1>11 DEF Next, Progress

\* The bus implements the contract, for every configuration and every load.
THEOREM Refinement == Spec => ImplementsContract
<1>1. QED
  BY RefineInit, RefineStep, Invariance, PTL DEF Spec, ImplementsContract, Contract!Spec

=========================================================================
