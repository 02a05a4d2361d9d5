---------------------- MODULE BusSubscriptionProofs ----------------------
(***************************************************************************)
(* Theorems about BusSubscription, for all events, subscribers, providers  *)
(* and rules, and about PatternMatch, which decides what a topic pattern   *)
(* or a rule covers, for all patterns and texts.                           *)
(***************************************************************************)
EXTENDS BusSubscription, PatternMatch, SequenceTheorems, WellFoundedInduction, TLAPS

---------------------------------------------------------------------------
(* Operators *)

LEMMA FirstIsLeast ==
  ASSUME NEW S, S \subseteq Nat, S # {}
  PROVE  First(S) \in S /\ \A j \in S : First(S) <= j
<1>1. PICK x \in S : \A y \in S : <<y, x>> \notin OpToRel(<, Nat)
  BY NatLessThanWellFounded, WFMin
<1>2. \A j \in S : x <= j
  <2> SUFFICES ASSUME NEW j \in S, j < x
               PROVE  FALSE
    BY SMT
  <2>1. <<j, x>> \in Nat \X Nat /\ <<j, x>>[1] < <<j, x>>[2]
    BY SMT
  <2>2. <<j, x>> \in OpToRel(<, Nat)
    BY <2>1, Zenon DEF OpToRel
  <2> QED
    BY <1>1, <2>2
<1> QED
  BY <1>2 DEF First

\* A topic that is served has a provider.
LEMMA Routed ==
  ASSUME NEW topic, ProviderForTopic(topic) # 0
  PROVE  ProviderForTopic(topic) \in DOMAIN Registrations
<1>1. Serving(topic) # {} /\ Serving(topic) \subseteq Nat
  BY BusAssumption, LenProperties DEF ProviderForTopic, Serving
<1>2. First(Serving(topic)) \in Serving(topic)
  BY <1>1, FirstIsLeast
<1> QED
  BY <1>1, <1>2 DEF ProviderForTopic, Serving

\* The rule that decides is the one the ACL asks.
LEMMA Decided ==
  ASSUME NEW i \in DOMAIN AclRules, NEW tenant, NEW topic, Decides(i, tenant, topic)
  PROVE  RulesFor(tenant, topic) # {} /\ First(RulesFor(tenant, topic)) = i
<1>1. RulesFor(tenant, topic) \subseteq Nat /\ i \in Nat
  BY BusAssumption, LenProperties DEF RulesFor
<1>2. i \in RulesFor(tenant, topic)
  BY DEF Decides, RulesFor
<1>3. First(RulesFor(tenant, topic)) \in RulesFor(tenant, topic)
      /\ First(RulesFor(tenant, topic)) <= i
  BY <1>1, <1>2, FirstIsLeast
<1>4. \A j \in RulesFor(tenant, topic) : ~(j < i)
  BY <1>1, BusAssumption, LenProperties DEF Decides, RulesFor
<1> QED
  BY <1>1, <1>2, <1>3, <1>4

LEMMA RangeOfAppend ==
  ASSUME NEW S, NEW seq \in Seq(S), NEW e \in S
  PROVE  /\ Append(seq, e) \in Seq(S)
         /\ Range(Append(seq, e)) = Range(seq) \cup {e}
<1>1. /\ Append(seq, e) \in Seq(S) /\ Len(seq) \in Nat
      /\ DOMAIN seq = 1 .. Len(seq)
      /\ DOMAIN Append(seq, e) = 1 .. (Len(seq) + 1)
      /\ \A i \in 1 .. Len(seq) : Append(seq, e)[i] = seq[i]
      /\ Append(seq, e)[Len(seq) + 1] = e
  OBVIOUS
<1>2. Range(Append(seq, e)) \subseteq Range(seq) \cup {e}
  BY <1>1 DEF Range
<1>3. Range(seq) \subseteq Range(Append(seq, e))
  BY <1>1 DEF Range
<1>4. e \in Range(Append(seq, e))
  BY <1>1 DEF Range
<1> QED
  BY <1>1, <1>2, <1>3, <1>4

LEMMA RangeOfConcat ==
  ASSUME NEW S, NEW one \in Seq(S), NEW two \in Seq(S)
  PROVE  /\ one \o two \in Seq(S)
         /\ Range(one \o two) = Range(one) \cup Range(two)
<1>1. /\ one \o two \in Seq(S) /\ Len(one) \in Nat /\ Len(two) \in Nat
      /\ DOMAIN one = 1 .. Len(one) /\ DOMAIN two = 1 .. Len(two)
      /\ DOMAIN (one \o two) = 1 .. (Len(one) + Len(two))
      /\ \A i \in 1 .. (Len(one) + Len(two)) :
           (one \o two)[i] = IF i <= Len(one) THEN one[i] ELSE two[i - Len(one)]
  BY ConcatProperties, LenProperties
<1>2. Range(one \o two) \subseteq Range(one) \cup Range(two)
  <2> SUFFICES ASSUME NEW i \in 1 .. (Len(one) + Len(two))
               PROVE  (one \o two)[i] \in Range(one) \cup Range(two)
    BY <1>1 DEF Range
  <2>1. CASE i <= Len(one)
    BY <1>1, <2>1 DEF Range
  <2>2. CASE ~(i <= Len(one))
    <3>1. i - Len(one) \in 1 .. Len(two)
      BY <1>1, <2>2
    <3> QED
      BY <1>1, <2>2, <3>1 DEF Range
  <2> QED
    BY <2>1, <2>2
<1>3. Range(one) \subseteq Range(one \o two)
  <2> SUFFICES ASSUME NEW i \in 1 .. Len(one)
               PROVE  one[i] \in Range(one \o two)
    BY <1>1 DEF Range
  <2>1. i \in 1 .. (Len(one) + Len(two)) /\ i <= Len(one)
    BY <1>1
  <2> QED
    BY <1>1, <2>1 DEF Range
<1>4. Range(two) \subseteq Range(one \o two)
  <2> SUFFICES ASSUME NEW i \in 1 .. Len(two)
               PROVE  two[i] \in Range(one \o two)
    BY <1>1 DEF Range
  <2>1. /\ Len(one) + i \in 1 .. (Len(one) + Len(two))
        /\ ~(Len(one) + i <= Len(one)) /\ (Len(one) + i) - Len(one) = i
    BY <1>1
  <2> QED
    BY <1>1, <2>1 DEF Range
<1> QED
  BY <1>1, <1>2, <1>3, <1>4

\* Taking the head off a queue leaves the rest.
LEMMA RangeOfTail ==
  ASSUME NEW S, NEW seq \in Seq(S), seq # <<>>
  PROVE  /\ Head(seq) \in S /\ Tail(seq) \in Seq(S)
         /\ <<Head(seq)>> \in Seq(S) /\ Range(<<Head(seq)>>) = {Head(seq)}
         /\ Range(seq) = {Head(seq)} \cup Range(Tail(seq))
<1>1. /\ Head(seq) \in S /\ Tail(seq) \in Seq(S) /\ <<Head(seq)>> \in Seq(S)
      /\ seq = <<Head(seq)>> \o Tail(seq)
  OBVIOUS
<1>2. Range(<<Head(seq)>>) = {Head(seq)}
  <2>1. DOMAIN <<Head(seq)>> = {1} /\ <<Head(seq)>>[1] = Head(seq)
    OBVIOUS
  <2> QED
    BY <2>1 DEF Range
<1>3. Range(<<Head(seq)>> \o Tail(seq)) = Range(<<Head(seq)>>) \cup Range(Tail(seq))
  BY <1>1, RangeOfConcat
<1> QED
  BY <1>1, <1>2, <1>3

---------------------------------------------------------------------------
(* The invariant *)

TypeOK ==
  /\ publish \in [Events -> {"idle", "pushed", "ok", "aclDenied", "noProvider"}]
  /\ published \in [DOMAIN Registrations -> Seq(Events)]
  /\ subscribe \in [Subscribers -> {"idle", "attaching", "stuck", "attached", "lagged",
                                    "closed", "aclDenied", "noProvider"}]
  /\ at \in [Subscribers -> {0} \cup DOMAIN Registrations]
  /\ inbox \in [Subscribers -> Seq(Events)]
  /\ unread \in [Subscribers -> Seq(Events)]
  /\ hand \in [Subscribers -> Seq(Events)]
  /\ audience \in [Events -> SUBSET Subscribers]
  /\ before \in [Subscribers -> SUBSET Events]

Taken(e) == publish[e] \in {"pushed", "ok"}

Started(s) == subscribe[s] \in {"attaching", "stuck", "attached", "lagged", "closed"}

EventAt(e) == ProviderForTopic(Event[e].topic)

\* What was taken passed the ACL and is in the list of its provider.
TakenInv ==
  \A e \in Events : Taken(e) =>
    /\ AllowPublish(Event[e].tenant, Event[e].topic)
    /\ EventAt(e) \in DOMAIN Registrations
    /\ e \in Range(published[EventAt(e)])

\* A subscription that runs passed the ACL and is at its provider.
StartedInv ==
  \A s \in Subscribers : Started(s) =>
    /\ AllowSubscribe(Request[s].tenant, Request[s].text)
    /\ at[s] = ProviderForTopic(Request[s].text)

\* Lists, handles and what is on its way to them hold nothing else.
OnlyTaken ==
  /\ \A i \in DOMAIN Registrations : \A e \in Range(published[i]) : Taken(e)
  /\ \A s \in Subscribers : \A e \in Bound(s) : Taken(e) /\ Started(s)

\* The history variables mean what they say.
History ==
  /\ \A s \in Subscribers : \A e \in before[s] : publish[e] = "ok"
  /\ \A e \in Events : \A s \in audience[e] : subscribe[s] \in {"attached", "lagged", "closed"}

\* What was there before is in the handle, and what was published since is
\* on its way, unless the channel cannot hold the former or the ring the latter.
Replayed ==
  \A s \in Subscribers : \A e \in before[s] :
    Started(s) /\ subscribe[s] # "stuck" /\ Request[s].existing /\ EventAt(e) = at[s]
      => e \in Range(inbox[s])

Sent ==
  \A e \in Events : \A s \in audience[e] :
    publish[e] = "ok" /\ subscribe[s] = "attached" /\ EventAt(e) = at[s]
      => e \in Bound(s)

IInv == TypeOK /\ TakenInv /\ StartedInv /\ OnlyTaken /\ History /\ Replayed /\ Sent

---------------------------------------------------------------------------
LEMMA InitIInv == Init => IInv
<1> SUFFICES ASSUME Init PROVE IInv
  OBVIOUS
<1>1. TypeOK
  BY EmptySeq DEF Init, TypeOK
<1>2. \A i \in DOMAIN Registrations : Range(published[i]) = {}
  BY DEF Init, Range
<1>3. \A s \in Subscribers : Bound(s) = {} /\ Range(inbox[s]) = {}
  BY DEF Init, Bound, Range
<1> QED
  BY <1>1, <1>2, <1>3
     DEF Init, IInv, TakenInv, StartedInv, OnlyTaken, History, Replayed, Sent, Taken, Started

LEMMA StepIInv == IInv /\ [Next]_vars => IInv'
<1> SUFFICES ASSUME IInv, [Next]_vars
             PROVE  IInv'
  OBVIOUS
<1> USE DEF IInv
<1>1. ASSUME NEW e \in Events, RefusePublish(e)
      PROVE  IInv'
  <2>1. TypeOK'
    BY <1>1 DEF RefusePublish, TypeOK
  <2>2. \A d \in Events : Taken(d)' <=> Taken(d)
    BY <1>1 DEF RefusePublish, TypeOK, Taken
  <2>3. \A d \in Events : publish'[d] = "ok" <=> publish[d] = "ok"
    BY <1>1 DEF RefusePublish, TypeOK
  <2>4. TakenInv' /\ OnlyTaken'
    BY <1>1, <2>1, <2>2 DEF RefusePublish, TakenInv, OnlyTaken, EventAt, Started, Bound,
                           TypeOK, Range
  <2>5. StartedInv' /\ Replayed'
    BY <1>1 DEF RefusePublish, StartedInv, Replayed, Started, EventAt
  <2>6. History' /\ Sent'
    BY <1>1, <2>1, <2>3 DEF RefusePublish, History, Sent, Bound, EventAt, TypeOK
  <2> QED
    BY <2>1, <2>4, <2>5, <2>6
<1>2. ASSUME NEW e \in Events, Push(e)
      PROVE  IInv'
  <2> DEFINE i == EventAt(e)
  <2>1. /\ i \in DOMAIN Registrations
        /\ published' = [published EXCEPT ![i] = Append(@, e)]
        /\ publish[e] = "idle" /\ publish' = [publish EXCEPT ![e] = "pushed"]
        /\ audience' = [audience EXCEPT ![e] = Attached]
        /\ UNCHANGED <<subscribe, at, inbox, unread, hand, before>>
        /\ AllowPublish(Event[e].tenant, Event[e].topic)
    BY <1>2, Routed DEF Push, EventAt
  <2> HIDE DEF i
  <2>2. /\ Append(published[i], e) \in Seq(Events)
        /\ Range(Append(published[i], e)) = Range(published[i]) \cup {e}
    BY <2>1, RangeOfAppend DEF TypeOK
  <2>3. TypeOK'
    BY <2>1, <2>2 DEF TypeOK, Attached
  <2>4. \A d \in Events : Taken(d)' <=> Taken(d) \/ d = e
    BY <2>1 DEF Taken, TypeOK
  <2>5. \A j \in DOMAIN Registrations :
          Range(published'[j]) = IF j = i THEN Range(published[j]) \cup {e}
                                 ELSE Range(published[j])
    BY <2>1, <2>2 DEF TypeOK
  <2>6. TakenInv'
    <3> SUFFICES ASSUME NEW d \in Events, Taken(d)'
                 PROVE  /\ AllowPublish(Event[d].tenant, Event[d].topic)
                        /\ EventAt(d) \in DOMAIN Registrations
                        /\ d \in Range(published'[EventAt(d)])
      BY DEF TakenInv, EventAt
    <3>1. CASE d = e
      <4>1. EventAt(d) = i
        BY <3>1 DEF i
      <4>2. e \in Range(published'[i])
        <5>1. i \in DOMAIN Registrations
          BY <2>1
        <5>2. Range(published'[i]) = Range(published[i]) \cup {e}
          BY <2>5, <5>1, Zenon
        <5> QED
          BY <5>2, Zenon
      <4>3. AllowPublish(Event[d].tenant, Event[d].topic)
        BY <2>1, <3>1
      <4> QED
        BY <2>1, <3>1, <4>1, <4>2, <4>3
    <3>2. CASE d # e
      BY <2>4, <2>5, <3>2 DEF TakenInv
    <3> QED
      BY <3>1, <3>2
  <2>7. OnlyTaken'
    <3>1. \A s \in Subscribers : Bound(s) \subseteq Events /\ Bound(s)' = Bound(s)
      BY <2>1 DEF TypeOK, Bound, Range
    <3>2. \A j \in DOMAIN Registrations : Range(published'[j]) \subseteq Events
      BY <2>3 DEF TypeOK, Range
    <3>3. \A j \in DOMAIN Registrations : \A d \in Range(published'[j]) : Taken(d)'
      BY <2>4, <2>5, <3>2 DEF OnlyTaken
    <3>4. \A s \in Subscribers : \A d \in Bound(s)' : Taken(d)' /\ Started(s)'
      <4> TAKE s \in Subscribers
      <4> TAKE d \in Bound(s)'
      <4>1. Started(s)' <=> Started(s)
        BY <2>1 DEF Started
      <4>2. Taken(d) /\ Started(s) /\ d \in Events
        BY <3>1 DEF OnlyTaken
      <4> QED
        BY <2>4, <4>1, <4>2
    <3> QED
      BY <3>3, <3>4 DEF OnlyTaken
  <2>8. StartedInv' /\ Replayed'
    BY <2>1 DEF StartedInv, Replayed, Started, EventAt
  <2>9. \A d \in Events : publish'[d] = "ok" <=> publish[d] = "ok" /\ d # e
    BY <2>1 DEF TypeOK
  <2>10. History'
    BY <2>1, <2>3, <2>9 DEF History, TypeOK, Attached
  <2>11. Sent'
    BY <2>1, <2>9 DEF Sent, Bound, EventAt, TypeOK
  <2> QED
    BY <2>3, <2>6, <2>7, <2>8, <2>10, <2>11
<1>3. ASSUME NEW e \in Events, Broadcast(e)
      PROVE  IInv'
  <2>1. /\ publish[e] = "pushed" /\ publish' = [publish EXCEPT ![e] = "ok"]
        /\ \A s \in Subscribers :
             unread'[s] = IF s \in Attached /\ at[s] = EventAt(e)
                          THEN Append(unread[s], e) ELSE unread[s]
        /\ unread' = [s \in Subscribers |-> unread'[s]]
        /\ UNCHANGED <<published, subscribe, at, inbox, hand, audience, before>>
    BY <1>3 DEF Broadcast, EventAt
  <2>2. \A s \in Subscribers :
          /\ unread'[s] \in Seq(Events)
          /\ Bound(s)' = IF s \in Attached /\ at[s] = EventAt(e)
                         THEN Bound(s) \cup {e} ELSE Bound(s)
    <3> TAKE s \in Subscribers
    <3>1. unread[s] \in Seq(Events)
      BY DEF TypeOK
    <3>2. /\ Append(unread[s], e) \in Seq(Events)
          /\ Range(Append(unread[s], e)) = Range(unread[s]) \cup {e}
      BY <3>1, RangeOfAppend
    <3>3. /\ unread'[s] \in Seq(Events)
          /\ Range(unread'[s]) = IF s \in Attached /\ at[s] = EventAt(e)
                                 THEN Range(unread[s]) \cup {e} ELSE Range(unread[s])
      BY <2>1, <3>1, <3>2
    <3>4. Bound(s)' = Range(inbox[s]) \cup Range(hand[s]) \cup Range(unread'[s])
      BY <2>1 DEF Bound
    <3> QED
      BY <3>3, <3>4 DEF Bound
  <2>3. TypeOK'
    BY <2>1, <2>2 DEF TypeOK
  <2>4. \A d \in Events : Taken(d)' <=> Taken(d)
    BY <2>1 DEF Taken, TypeOK
  <2>5. \A d \in Events : publish'[d] = "ok" <=> publish[d] = "ok" \/ d = e
    BY <2>1 DEF TypeOK
  <2>6. TakenInv' /\ StartedInv'
    BY <2>1, <2>4 DEF TakenInv, StartedInv, Started, EventAt
  <2>7. OnlyTaken'
    <3>1. \A s \in Subscribers : Bound(s)' \subseteq Events
      BY <2>3 DEF TypeOK, Bound, Range
    <3>2. \A j \in DOMAIN Registrations : Range(published[j]) \subseteq Events
      BY DEF TypeOK, Range
    <3>3. Taken(e)
      BY <2>1 DEF Taken
    <3>4. \A j \in DOMAIN Registrations : \A d \in Range(published'[j]) : Taken(d)'
      BY <2>1, <2>4, <3>2 DEF OnlyTaken
    <3>5. \A s \in Subscribers : \A d \in Bound(s)' : Taken(d)' /\ Started(s)'
      <4> TAKE s \in Subscribers
      <4> TAKE d \in Bound(s)'
      <4>1. Started(s)' <=> Started(s)
        BY <2>1 DEF Started
      <4>2. s \in Attached => Started(s)
        BY DEF Attached, Started
      <4>3. Taken(d) /\ Started(s)
        BY <2>2, <3>3, <4>2 DEF OnlyTaken
      <4> QED
        BY <2>4, <3>1, <4>1, <4>3
    <3> QED
      BY <3>4, <3>5 DEF OnlyTaken
  <2>8. History'
    BY <2>1, <2>5 DEF History, TypeOK
  <2>9. Replayed'
    BY <2>1 DEF Replayed, Started, EventAt
  <2>10. Sent'
    <3> SUFFICES ASSUME NEW d \in Events, NEW s \in audience[d], publish'[d] = "ok",
                        subscribe[s] = "attached", EventAt(d) = at[s]
                 PROVE  d \in Bound(s)'
      BY <2>1 DEF Sent, EventAt
    <3>1. s \in Attached
      BY DEF TypeOK, Attached
    <3>2. CASE d = e
      BY <2>2, <3>1, <3>2 DEF Attached
    <3>3. CASE d # e
      <4>1. d \in Bound(s)
        BY <2>5, <3>3 DEF Sent
      <4> QED
        BY <2>2, <3>1, <4>1 DEF Attached
    <3> QED
      BY <3>2, <3>3
  <2> QED
    BY <2>3, <2>6, <2>7, <2>8, <2>9, <2>10
<1>4. ASSUME NEW s \in Subscribers, RefuseSubscribe(s)
      PROVE  IInv'
  <2>1. /\ subscribe[s] = "idle"
        /\ UNCHANGED <<publish, published, at, inbox, unread, hand, audience, before>>
        /\ \A t \in Subscribers : t # s => subscribe'[t] = subscribe[t]
        /\ subscribe'[s] \in {"aclDenied", "noProvider"}
    BY <1>4 DEF RefuseSubscribe, TypeOK
  <2>2. TypeOK'
    BY <1>4 DEF RefuseSubscribe, TypeOK
  <2>3. \A t \in Subscribers : Started(t)' <=> Started(t)
    BY <2>1 DEF Started
  <2>4. TakenInv' /\ StartedInv' /\ OnlyTaken'
    BY <2>1, <2>3 DEF TakenInv, StartedInv, OnlyTaken, Bound, Taken, EventAt
  <2>5. History' /\ Replayed' /\ Sent'
    BY <2>1, <2>3 DEF History, Replayed, Sent, Bound, EventAt, TypeOK
  <2> QED
    BY <2>2, <2>4, <2>5
<1>5. ASSUME NEW s \in Subscribers, Subscribe(s)
      PROVE  IInv'
  <2> DEFINE i == ProviderForTopic(Request[s].text)
             existing == IF Request[s].existing THEN published[i] ELSE <<>>
             fits == Len(existing) <= Channel
  <2>1. /\ subscribe[s] = "idle" /\ AllowSubscribe(Request[s].tenant, Request[s].text)
        /\ i \in DOMAIN Registrations
        /\ at' = [at EXCEPT ![s] = i]
        /\ inbox' = [inbox EXCEPT ![s] = IF fits THEN existing
                                         ELSE SubSeq(existing, 1, Channel)]
        /\ subscribe' = [subscribe EXCEPT ![s] = IF fits THEN "attaching" ELSE "stuck"]
        /\ before' = [before EXCEPT ![s] = {e \in Events : publish[e] = "ok"}]
        /\ UNCHANGED <<publish, published, unread, hand, audience>>
    <3>1. existing \in Seq(Events) /\ Len(existing) \in Nat /\ Channel \in Nat
      <4>1. i \in DOMAIN Registrations
        BY <1>5, Routed DEF Subscribe
      <4>2. published[i] \in Seq(Events)
        BY <4>1 DEF TypeOK
      <4> QED
        BY <4>2, EmptySeq, LenProperties, BusAssumption
    <3>2. Len(existing) > Channel <=> ~fits
      BY <3>1
    <3> HIDE DEF existing, fits
    <3>3. /\ subscribe[s] = "idle" /\ AllowSubscribe(Request[s].tenant, Request[s].text)
          /\ i # 0 /\ at' = [at EXCEPT ![s] = i]
          /\ \/ /\ fits
                /\ subscribe' = [subscribe EXCEPT ![s] = "attaching"]
                /\ inbox' = [inbox EXCEPT ![s] = existing]
             \/ /\ ~fits
                /\ subscribe' = [subscribe EXCEPT ![s] = "stuck"]
                /\ inbox' = [inbox EXCEPT ![s] = SubSeq(existing, 1, Channel)]
          /\ before' = [before EXCEPT ![s] = {e \in Events : publish[e] = "ok"}]
          /\ UNCHANGED <<publish, published, unread, hand, audience>>
      BY <1>5, <3>2, Zenon DEF Subscribe, SubscribeTo, existing, fits
    <3>4. i \in DOMAIN Registrations
      BY <3>3, Routed DEF i
    <3> QED
      BY <3>3, <3>4
  <2>a. /\ existing \in Seq(Events)
        /\ SubSeq(existing, 1, Channel) \in Seq(Events) \/ fits
        /\ Range(SubSeq(existing, 1, Channel)) \subseteq Range(existing) \/ fits
        /\ Range(existing) = IF Request[s].existing THEN Range(published[i]) ELSE {}
    <3>1. existing \in Seq(Events)
      BY <2>1, EmptySeq DEF TypeOK
    <3>2. Range(existing) = IF Request[s].existing THEN Range(published[i]) ELSE {}
      BY DEF Range
    <3> HIDE DEF existing
    <3>3. SubSeq(existing, 1, Channel) \in Seq(Events) \/ fits
      BY <3>1, BusAssumption DEF fits
    <3>4. Range(SubSeq(existing, 1, Channel)) \subseteq Range(existing) \/ fits
      BY <3>1, BusAssumption DEF Range, fits
    <3> QED
      BY <3>1, <3>2, <3>3, <3>4
  <2> HIDE DEF i, existing, fits
  <2>2. TypeOK'
    BY <2>1, <2>a DEF TypeOK
  <2>3. \A t \in Subscribers : t # s =>
          /\ subscribe'[t] = subscribe[t] /\ at'[t] = at[t] /\ inbox'[t] = inbox[t]
          /\ before'[t] = before[t] /\ Bound(t)' = Bound(t)
    BY <2>1 DEF TypeOK, Bound
  <2>4. /\ subscribe'[s] = (IF fits THEN "attaching" ELSE "stuck") /\ at'[s] = i
        /\ inbox'[s] = IF fits THEN existing ELSE SubSeq(existing, 1, Channel)
        /\ before'[s] = {e \in Events : publish[e] = "ok"}
    BY <2>1 DEF TypeOK
  <2>5. \A t \in Subscribers : Started(t)' <=> Started(t) \/ t = s
    BY <2>3, <2>4 DEF Started
  <2>6. TakenInv' /\ StartedInv'
    BY <2>1, <2>3, <2>4, <2>5 DEF TakenInv, StartedInv, Taken, EventAt, i
  <2>7. OnlyTaken'
    <3>1. \A e \in Bound(s)' : Taken(e)
      <4>1. Range(inbox'[s]) \subseteq Range(published[i])
        BY <2>4, <2>a
      <4>2. \A e \in Range(published[i]) : Taken(e)
        BY <2>1 DEF OnlyTaken
      <4>3. Bound(s)' \subseteq Range(inbox'[s]) \cup Bound(s)
        BY <2>1 DEF Bound
      <4> QED
        BY <4>1, <4>2, <4>3 DEF OnlyTaken
    <3>2. \A t \in Subscribers : \A e \in Bound(t)' : Taken(e)
      BY <2>3, <3>1 DEF OnlyTaken
    <3>3. \A t \in Subscribers : Bound(t)' # {} => Started(t) \/ t = s
      BY <2>3 DEF OnlyTaken
    <3> QED
      BY <2>1, <2>5, <3>2, <3>3 DEF OnlyTaken, Taken
  <2>8. History'
    BY <2>1, <2>3, <2>4 DEF History, TypeOK
  <2>9. Replayed'
    <3>1. ASSUME NEW e \in before'[s], fits, Request[s].existing, EventAt(e) = i
          PROVE  e \in Range(inbox'[s])
      BY <2>4, <2>a, <3>1 DEF TakenInv, Taken
    <3> QED
      BY <2>3, <2>4, <2>5, <3>1 DEF Replayed, EventAt
  <2>10. Sent'
    BY <2>1, <2>3, <2>4 DEF Sent, EventAt, TypeOK
  <2> QED
    BY <2>2, <2>6, <2>7, <2>8, <2>9, <2>10
<1>6. ASSUME NEW s \in Subscribers, Attach(s) \/ Lag(s) \/ Close(s)
      PROVE  IInv'
  <2>1. /\ UNCHANGED <<publish, published, at, inbox, audience, before>>
        /\ \A t \in Subscribers : t # s =>
             subscribe'[t] = subscribe[t] /\ unread'[t] = unread[t] /\ hand'[t] = hand[t]
        /\ \/ subscribe[s] = "attaching" /\ subscribe'[s] = "attached"
           \/ subscribe[s] = "attached" /\ subscribe'[s] \in {"lagged", "closed"}
        /\ unread'[s] \in {<<>>, unread[s]} /\ hand'[s] \in {<<>>, hand[s]}
    BY <1>6 DEF Attach, Lag, Close, TypeOK
  <2>2. TypeOK'
    <3>1. <<>> \in Seq(Events)
      BY EmptySeq
    <3>2. CASE Attach(s)
      BY <3>2 DEF Attach, TypeOK
    <3>3. CASE Lag(s)
      BY <3>1, <3>3 DEF Lag, TypeOK
    <3>4. CASE Close(s)
      BY <3>1, <3>4 DEF Close, TypeOK
    <3> QED
      BY <1>6, <3>2, <3>3, <3>4
  <2>3. \A t \in Subscribers :
          /\ Started(t)' <=> Started(t)
          /\ Range(unread'[t]) \subseteq Range(unread[t])
          /\ Range(hand'[t]) \subseteq Range(hand[t])
    <3>1. Range(<<>>) = {}
      BY DEF Range
    <3>2. /\ Range(unread'[s]) \subseteq Range(unread[s])
          /\ Range(hand'[s]) \subseteq Range(hand[s])
      BY <2>1, <3>1
    <3> QED
      BY <2>1, <3>2 DEF Started
  <2>4. TakenInv' /\ StartedInv'
    BY <2>1, <2>3 DEF TakenInv, StartedInv, Taken, EventAt
  <2>7. OnlyTaken'
    BY <2>1, <2>3 DEF OnlyTaken, Bound, Taken
  <2>5. History' /\ Replayed'
    BY <2>1, <2>3 DEF History, Replayed, EventAt, TypeOK
  <2>6. Sent'
    \* s was not attached when any event began that it is now attached for
    <3> SUFFICES ASSUME NEW e \in Events, NEW t \in audience[e], publish[e] = "ok",
                        subscribe'[t] = "attached", EventAt(e) = at[t]
                 PROVE  e \in Range(inbox[t]) \cup Range(hand'[t]) \cup Range(unread'[t])
      BY <2>1 DEF Sent, Bound, EventAt
    <3>1. t # s /\ t \in Subscribers
      BY <2>1 DEF History, TypeOK
    <3> QED
      BY <2>1, <3>1 DEF Sent, Bound
  <2> QED
    BY <2>2, <2>4, <2>5, <2>6, <2>7
<1>7. ASSUME NEW s \in Subscribers, Recv(s) \/ Send(s)
      PROVE  IInv'
  <2>1. /\ UNCHANGED <<publish, published, subscribe, at, audience, before>>
        /\ inbox[s] \in Seq(Events) /\ unread[s] \in Seq(Events) /\ hand[s] \in Seq(Events)
        /\ \A t \in Subscribers : t # s =>
             inbox'[t] = inbox[t] /\ unread'[t] = unread[t] /\ hand'[t] = hand[t]
    BY <1>7 DEF Recv, Send, TypeOK
  <2>2. TypeOK' /\ Bound(s)' = Bound(s) /\ Range(inbox[s]) \subseteq Range(inbox'[s])
    <3>1. CASE Recv(s)
      <4>1. /\ unread[s] # <<>> /\ hand[s] = <<>> /\ inbox' = inbox
            /\ hand' = [hand EXCEPT ![s] = <<Head(unread[s])>>]
            /\ unread' = [unread EXCEPT ![s] = Tail(unread[s])]
        BY <3>1 DEF Recv
      <4>2. /\ <<Head(unread[s])>> \in Seq(Events) /\ Tail(unread[s]) \in Seq(Events)
            /\ Range(<<Head(unread[s])>>) = {Head(unread[s])}
            /\ Range(unread[s]) = {Head(unread[s])} \cup Range(Tail(unread[s]))
        BY <2>1, <4>1, RangeOfTail
      <4>3. Range(hand[s]) = {}
        BY <4>1 DEF Range
      <4>4. /\ hand'[s] = <<Head(unread[s])>> /\ unread'[s] = Tail(unread[s])
            /\ inbox'[s] = inbox[s]
        BY <4>1 DEF TypeOK
      <4>5. Bound(s)' = Bound(s)
        BY <4>2, <4>3, <4>4 DEF Bound
      <4> QED
        BY <2>1, <4>1, <4>2, <4>5 DEF TypeOK
    <3>2. CASE Send(s)
      <4>1. /\ inbox' = [inbox EXCEPT ![s] = inbox[s] \o hand[s]]
            /\ hand' = [hand EXCEPT ![s] = <<>>] /\ unread' = unread
        BY <3>2 DEF Send
      <4>2. /\ inbox[s] \o hand[s] \in Seq(Events)
            /\ Range(inbox[s] \o hand[s]) = Range(inbox[s]) \cup Range(hand[s])
        BY <2>1, RangeOfConcat
      <4>3. /\ inbox'[s] = inbox[s] \o hand[s] /\ hand'[s] = <<>> /\ unread'[s] = unread[s]
        BY <4>1 DEF TypeOK
      <4>4. Range(hand'[s]) = {}
        BY <4>3 DEF Range
      <4>5. Bound(s)' = Bound(s) /\ Range(inbox[s]) \subseteq Range(inbox'[s])
        BY <4>2, <4>3, <4>4 DEF Bound
      <4> QED
        BY <2>1, <4>1, <4>2, <4>5, EmptySeq DEF TypeOK
    <3> QED
      BY <1>7, <3>1, <3>2
  <2>3. \A t \in Subscribers : /\ Bound(t)' = Bound(t)
                              /\ Range(inbox[t]) \subseteq Range(inbox'[t])
    BY <2>1, <2>2 DEF Bound
  <2>4. TakenInv' /\ StartedInv' /\ OnlyTaken'
    BY <2>1, <2>3 DEF TakenInv, StartedInv, OnlyTaken, Taken, Started, EventAt
  <2>5. History' /\ Replayed'
    BY <2>1, <2>3 DEF History, Replayed, Started, EventAt, TypeOK
  <2>6. Sent'
    BY <2>1, <2>3 DEF Sent, EventAt, TypeOK
  <2> QED
    BY <2>2, <2>4, <2>5, <2>6
<1>8. CASE UNCHANGED vars
  BY <1>8 DEF vars, TypeOK, TakenInv, StartedInv, OnlyTaken, History, Replayed, Sent,
              Taken, Started, EventAt, Bound
<1> QED
  BY <1>1, <1>2, <1>3, <1>4, <1>5, <1>6, <1>7, <1>8 DEF Next

---------------------------------------------------------------------------
(* The theorems *)

\* The state of the bus, its providers and its subscriptions keeps its type.
THEOREM TypeCorrect == Spec => []TypeOK
<1>1. IInv => TypeOK
  BY DEF IInv
<1> QED
  BY <1>1, InitIInv, StepIInv, PTL DEF Spec

\* Every event of a subscriber's topic, or of its pattern at the same
\* provider, that is published while it is attached, and each one published
\* before if it asked for them, has been sent to it or is on its way, until
\* it falls more than the ring behind: EventBus::publish and subscribe meet
\* at one provider, and no interleaving of their steps with the task that
\* forwards loses such an event, whatever the number of events and the
\* sizes of ring and channel.
THEOREM SubscribersReached == Spec => []ReachesSubscribers
<1>1. IInv => ReachesSubscribers
  <2> SUFFICES ASSUME IInv, NEW s \in Subscribers, NEW e \in Events,
                      MetInTime(s, e), Covers(Request[s].text, Event[e].topic)
               PROVE  e \in Bound(s)
    BY DEF ReachesSubscribers
  <2>1. EventAt(e) = at[s] /\ Started(s)
    BY DEF IInv, StartedInv, Started, MetInTime, EventAt, Covers
  <2> QED
    BY <2>1 DEF IInv, Replayed, Sent, MetInTime, Bound
<1> QED
  BY <1>1, InitIInv, StepIInv, PTL DEF Spec

\* What a handle is sent has passed both checks of the ACL, each decided by
\* the first rule that matches.
THEOREM AclKept == Spec => []SentAsAllowed
<1>1. IInv => SentAsAllowed
  <2> SUFFICES ASSUME IInv, NEW s \in Subscribers, NEW e \in Range(inbox[s]),
                      NEW i \in DOMAIN AclRules
               PROVE  /\ Decides(i, Request[s].tenant, Request[s].text)
                           => AclRules[i].allowSubscribe
                      /\ Decides(i, Event[e].tenant, Event[e].topic)
                           => AclRules[i].allowPublish
    BY DEF SentAsAllowed
  <2>1. e \in Events
    BY DEF IInv, TypeOK, Range
  <2>2. Taken(e) /\ Started(s)
    BY DEF IInv, OnlyTaken, Bound
  <2>3. /\ AllowPublish(Event[e].tenant, Event[e].topic)
        /\ AllowSubscribe(Request[s].tenant, Request[s].text)
    BY <2>1, <2>2 DEF IInv, TakenInv, StartedInv
  <2> QED
    BY <2>3, Decided DEF AllowPublish, AllowSubscribe
<1> QED
  BY <1>1, InitIInv, StepIInv, PTL DEF Spec

---------------------------------------------------------------------------
(* The patterns *)

\* cuts splits the first n bytes of a text into the pieces that the first m
\* bytes of a pattern stand for.
Splits(p, t, cuts, m, n) ==
  /\ cuts \in [0 .. m -> 0 .. n]
  /\ cuts[0] = 0 /\ cuts[m] = n
  /\ \A i \in 1 .. m : Piece(p, t, cuts, i)

MatcherTypeOK ==
  /\ pat \in Seq(PatternChars) /\ text \in Seq(TextChars)
  /\ pi \in 1 .. (Len(pat) + 1) /\ ti \in 1 .. (Len(text) + 1)
  /\ star \in 0 .. Len(pat)
  /\ match_idx \in 0 .. (Len(text) + 1)
  /\ verdict \in {"matching", "trailing", "yes", "no"}

\* Since the last star every byte of the pattern took one of the text.
SinceStar ==
  verdict = "matching" /\ star # 0 =>
    /\ star < pi /\ pat[star] = "*"
    /\ match_idx \in 1 .. ti /\ ti - match_idx = (pi - 1) - star

Consumed ==
  verdict \in {"matching", "trailing"} =>
    \E cuts : Splits(pat, text, cuts, pi - 1, ti - 1)

\* What stands before the last star matches up to where the star began.
BeforeStar ==
  verdict = "matching" /\ star # 0 =>
    \E k \in 0 .. (match_idx - 1) : \E cuts : Splits(pat, text, cuts, star - 1, k)

SoundInv ==
  /\ MatcherTypeOK /\ SinceStar /\ Consumed /\ BeforeStar
  /\ verdict = "trailing" => ti = Len(text) + 1
  /\ verdict = "yes" => \E cuts : Splits(pat, text, cuts, Len(pat), Len(text))

\* One more byte of the pattern.
LEMMA SplitsOn ==
  ASSUME NEW p, NEW t, NEW m \in Nat, NEW k \in Nat, NEW n \in Nat, k <= n,
         NEW cuts, Splits(p, t, cuts, m, k),
         p[m + 1] = "*" \/ (n = k + 1 /\ p[m + 1] \in {"?", t[n]})
  PROVE  \E longer : Splits(p, t, longer, m + 1, n)
<1> DEFINE longer == [j \in 0 .. (m + 1) |-> IF j = m + 1 THEN n ELSE cuts[j]]
<1>1. \A j \in 0 .. m : longer[j] = cuts[j] /\ cuts[j] \in 0 .. k
  BY DEF Splits
<1>2. longer[m + 1] = n
  OBVIOUS
<1>3. longer \in [0 .. (m + 1) -> 0 .. n]
  <2>1. ASSUME NEW j \in 0 .. (m + 1)
        PROVE  (IF j = m + 1 THEN n ELSE cuts[j]) \in 0 .. n
    BY DEF Splits
  <2> QED
    BY <2>1
<1>4. cuts[0] = 0 /\ cuts[m] = k
  BY DEF Splits
<1> HIDE DEF longer
<1>5. ASSUME NEW i \in 1 .. m
      PROVE  Piece(p, t, longer, i)
  <2>1. Piece(p, t, cuts, i)
    BY DEF Splits
  <2>2. longer[i] = cuts[i] /\ longer[i - 1] = cuts[i - 1]
    BY <1>1
  <2> QED
    BY <2>1, <2>2 DEF Piece
<1>6. Piece(p, t, longer, m + 1)
  <2>1. longer[m + 1] = n /\ longer[(m + 1) - 1] = k
    BY <1>1, <1>2, <1>4
  <2> QED
    BY <2>1 DEF Piece
<1>7. \A i \in 1 .. (m + 1) : Piece(p, t, longer, i)
  BY <1>5, <1>6
<1>8. longer[0] = 0
  BY <1>1, <1>4
<1> QED
  BY <1>2, <1>3, <1>7, <1>8 DEF Splits

\* Splitting the start of a text is matching it with the start of the pattern.
LEMMA SplitsGlob ==
  ASSUME NEW S, NEW p \in Seq(S), NEW T, NEW t \in Seq(T),
         NEW m \in 0 .. Len(p), NEW n \in 0 .. Len(t),
         NEW cuts, Splits(p, t, cuts, m, n)
  PROVE  Glob(SubSeq(p, 1, m), SubSeq(t, 1, n))
<1> DEFINE q == SubSeq(p, 1, m)
           u == SubSeq(t, 1, n)
<1>1. /\ Len(q) = m /\ Len(u) = n
      /\ \A i \in 1 .. m : q[i] = p[i]
      /\ \A i \in 1 .. n : u[i] = t[i]
  BY SubSeqProperties, LenProperties
<1> HIDE DEF q, u
<1>2. ASSUME NEW i \in 1 .. m
      PROVE  Piece(q, u, cuts, i)
  <2>1. Piece(p, t, cuts, i) /\ cuts[i] \in 0 .. n /\ cuts[i - 1] \in 0 .. n
    BY DEF Splits
  <2>2. CASE p[i] = "*"
    BY <1>1, <2>1, <2>2 DEF Piece
  <2>3. CASE p[i] # "*"
    <3>1. cuts[i] = cuts[i - 1] + 1 /\ p[i] \in {"?", t[cuts[i]]}
      BY <2>1, <2>3 DEF Piece
    <3>2. cuts[i] \in 1 .. n
      BY <2>1, <3>1
    <3> QED
      BY <1>1, <2>3, <3>1, <3>2 DEF Piece
  <2> QED
    BY <2>2, <2>3
<1>3. cuts \in [0 .. m -> 0 .. n] /\ cuts[0] = 0 /\ cuts[m] = n
  BY DEF Splits
<1>4. Glob(q, u)
  BY <1>1, <1>2, <1>3 DEF Glob
<1> QED
  BY <1>4 DEF q, u

\* A glob match is a way to split the whole text.
LEMMA GlobSplits ==
  ASSUME NEW p, NEW t
  PROVE  Glob(p, t) <=> \E cuts : Splits(p, t, cuts, Len(p), Len(t))
  BY DEF Glob, Splits

\* Before the first byte of either there is nothing to split.
LEMMA NoSplit ==
  ASSUME NEW p, NEW t
  PROVE  \E cuts : Splits(p, t, cuts, 0, 0)
<1> DEFINE none == [j \in 0 .. 0 |-> 0]
<1>1. none \in [0 .. 0 -> 0 .. 0] /\ none[0] = 0
  OBVIOUS
<1> HIDE DEF none
<1>2. Splits(p, t, none, 0, 0)
  BY <1>1 DEF Splits
<1> QED
  BY <1>2

LEMMA InitSound == MatchInit => SoundInv
<1> SUFFICES ASSUME MatchInit
             PROVE  SoundInv
  OBVIOUS
<1>1. pat \in Seq(PatternChars) /\ text \in Seq(TextChars)
  BY DEF MatchInit, Strings, BoundedSeq, SeqOf
<1>2. MatcherTypeOK
  BY <1>1, LenProperties DEF MatchInit, MatcherTypeOK
<1>3. \E cuts : Splits(pat, text, cuts, 0, 0)
  BY NoSplit
<1>4. Consumed
  BY <1>3 DEF MatchInit, Consumed
<1>5. ASSUME verdict = "yes"
      PROVE  \E cuts : Splits(pat, text, cuts, Len(pat), Len(text))
  <2>1. pat = <<"*">>
    BY <1>5 DEF MatchInit
  <2>2. Len(pat) = 0 + 1 /\ pat[0 + 1] = "*" /\ Len(text) \in Nat /\ 0 <= Len(text)
    BY <1>1, <2>1, LenProperties
  <2>3. \E cuts : Splits(pat, text, cuts, 0 + 1, Len(text))
    BY <1>3, <2>2, SplitsOn
  <2> QED
    BY <2>2, <2>3
<1> QED
  BY <1>2, <1>4, <1>5 DEF MatchInit, SoundInv, SinceStar, BeforeStar

LEMMA StepSound == SoundInv /\ [MatchNext]_matchVars => SoundInv'
<1> SUFFICES ASSUME SoundInv, [MatchNext]_matchVars
             PROVE  SoundInv'
  OBVIOUS
<1> USE DEF SoundInv
<1>0. /\ Len(pat) \in Nat /\ Len(text) \in Nat
      /\ pi \in Nat \ {0} /\ ti \in Nat \ {0} /\ star \in Nat /\ match_idx \in Nat
  BY LenProperties DEF MatcherTypeOK
<1>1. CASE Advance
  <2>1. PICK cuts : Splits(pat, text, cuts, pi - 1, ti - 1)
    BY <1>1 DEF Consumed, Advance, InText
  <2>2. \E longer : Splits(pat, text, longer, (pi - 1) + 1, ti)
    <3>1. pat[(pi - 1) + 1] \in {"?", text[ti]}
      BY <1>0, <1>1 DEF Advance, TakesByte
    <3>2. pi - 1 \in Nat /\ ti - 1 \in Nat /\ ti \in Nat /\ ti - 1 <= ti /\ ti = (ti - 1) + 1
      BY <1>0
    <3> QED
      BY <2>1, <3>1, <3>2, SplitsOn
  <2>3. Consumed'
    BY <1>0, <1>1, <2>2 DEF Consumed, Advance
  <2>4. MatcherTypeOK'
    BY <1>0, <1>1 DEF MatcherTypeOK, Advance, InText, TakesByte
  <2>5. SinceStar'
    BY <1>0, <1>1 DEF SinceStar, Advance
  <2> QED
    BY <1>1, <2>3, <2>4, <2>5 DEF BeforeStar, Advance, InText
<1>2. CASE EnterStar
  <2>1. PICK cuts : Splits(pat, text, cuts, pi - 1, ti - 1)
    BY <1>2 DEF Consumed, EnterStar, InText
  <2>2. \E longer : Splits(pat, text, longer, (pi - 1) + 1, ti - 1)
    <3>1. pat[(pi - 1) + 1] = "*"
      BY <1>0, <1>2 DEF EnterStar, AtStar
    <3>2. pi - 1 \in Nat /\ ti - 1 \in Nat /\ ti - 1 <= ti - 1
      BY <1>0
    <3> QED
      BY <2>1, <3>1, <3>2, SplitsOn
  <2>3. Consumed'
    BY <1>0, <1>2, <2>2 DEF Consumed, EnterStar
  <2>4. BeforeStar'
    BY <1>0, <1>2, <2>1 DEF BeforeStar, EnterStar
  <2>5. MatcherTypeOK' /\ SinceStar'
    BY <1>0, <1>2
      DEF MatcherTypeOK, SinceStar, EnterStar, AtStar, InText
  <2> QED
    BY <1>2, <2>3, <2>4, <2>5 DEF EnterStar, InText
<1>3. CASE Backtrack
  <2>0. /\ verdict = "matching" /\ star # 0 /\ pat[star] = "*"
        /\ match_idx \in 1 .. ti /\ ti <= Len(text)
    BY <1>3 DEF SinceStar, Backtrack, InText
  <2>1. PICK k \in 0 .. (match_idx - 1) :
          \E cuts : Splits(pat, text, cuts, star - 1, k)
    BY <2>0 DEF BeforeStar
  <2>2. PICK cuts : Splits(pat, text, cuts, star - 1, k)
    BY <2>1
  <2>3. \E longer : Splits(pat, text, longer, (star - 1) + 1, match_idx)
    <3>1. pat[(star - 1) + 1] = "*"
      BY <1>0, <2>0
    <3>2. k \in Nat /\ k <= match_idx /\ star - 1 \in Nat /\ match_idx \in Nat
      BY <1>0, <2>0
    <3> QED
      BY <2>2, <3>1, <3>2, SplitsOn
  <2>4. Consumed'
    BY <1>0, <1>3, <2>3 DEF Consumed, Backtrack
  <2>5. BeforeStar'
    BY <1>0, <1>3, <2>0, <2>1 DEF BeforeStar, Backtrack
  <2>6. MatcherTypeOK' /\ SinceStar'
    BY <1>0, <1>3, <2>0 DEF MatcherTypeOK, SinceStar, Backtrack
  <2> QED
    BY <1>3, <2>0, <2>4, <2>5, <2>6 DEF Backtrack
<1>4. CASE Fail
  BY <1>4 DEF MatcherTypeOK, SinceStar, Consumed, BeforeStar, Fail
<1>5. CASE EndOfText
  <2>1. ti = Len(text) + 1
    BY <1>0, <1>5 DEF MatcherTypeOK, EndOfText
  <2>2. Consumed'
    BY <1>5 DEF Consumed, EndOfText
  <2> QED
    BY <1>5, <2>1, <2>2 DEF MatcherTypeOK, SinceStar, BeforeStar, EndOfText
<1>6. CASE SkipStar
  <2>1. PICK cuts : Splits(pat, text, cuts, pi - 1, ti - 1)
    BY <1>6 DEF Consumed, SkipStar
  <2>2. \E longer : Splits(pat, text, longer, (pi - 1) + 1, ti - 1)
    <3>1. pat[(pi - 1) + 1] = "*"
      BY <1>0, <1>6 DEF SkipStar, AtStar
    <3>2. pi - 1 \in Nat /\ ti - 1 \in Nat /\ ti - 1 <= ti - 1
      BY <1>0
    <3> QED
      BY <2>1, <3>1, <3>2, SplitsOn
  <2>3. Consumed'
    BY <1>0, <1>6, <2>2 DEF Consumed, SkipStar
  <2> QED
    BY <1>0, <1>6, <2>3
      DEF MatcherTypeOK, SinceStar, BeforeStar, SkipStar, AtStar
<1>7. CASE Answer
  <2>1. PICK cuts : Splits(pat, text, cuts, pi - 1, ti - 1)
    BY <1>7 DEF Consumed, Answer
  <2>2. verdict' = "yes" => \E whole : Splits(pat, text, whole, Len(pat), Len(text))
    <3>1. verdict' = "yes" => pi - 1 = Len(pat) /\ ti - 1 = Len(text)
      BY <1>0, <1>7 DEF Answer
    <3> QED
      BY <2>1, <3>1
  <2> QED
    BY <1>7, <2>2 DEF MatcherTypeOK, SinceStar, Consumed, BeforeStar, Answer
<1>8. CASE UNCHANGED matchVars
  BY <1>8 DEF matchVars, MatcherTypeOK, SinceStar, Consumed, BeforeStar
<1> QED
  BY <1>1, <1>2, <1>3, <1>4, <1>5, <1>6, <1>7, <1>8 DEF MatchNext

\* While a pattern that fits the text is being matched, no way to split the
\* text has been passed over: the cursors are at a cut of each, or behind it
\* by what the last star may still take.
NothingMissed ==
  \A cuts : Splits(pat, text, cuts, Len(pat), Len(text)) =>
    /\ verdict = "matching" /\ star = 0 => cuts[pi - 1] = ti - 1
    /\ verdict = "matching" /\ star # 0 =>
         /\ cuts[star] >= match_idx - 1
         /\ cuts[pi - 1] - cuts[star] = (pi - 1) - star
    /\ verdict = "trailing" => cuts[pi - 1] >= ti - 1
    /\ verdict # "no"

LEMMA InitMissed == MatchInit => NothingMissed
  BY DEF MatchInit, NothingMissed, Splits

LEMMA StepMissed ==
  ASSUME "*" \notin TextChars, SoundInv, NothingMissed, [MatchNext]_matchVars
  PROVE  NothingMissed'
<1>0. /\ pat \in Seq(PatternChars) /\ text \in Seq(TextChars)
      /\ Len(pat) \in Nat /\ Len(text) \in Nat
      /\ pi \in 1 .. (Len(pat) + 1) /\ ti \in 1 .. (Len(text) + 1)
      /\ star \in 0 .. Len(pat) /\ match_idx \in Nat
      /\ SinceStar
  BY LenProperties DEF SoundInv, MatcherTypeOK
<1>1. pat' = pat /\ text' = text
  BY DEF MatchNext, matchVars, Advance, EnterStar, Backtrack,
         Fail, EndOfText, SkipStar, Answer
<1> SUFFICES ASSUME NEW cuts, Splits(pat, text, cuts, Len(pat), Len(text))
             PROVE  /\ verdict' = "matching" /\ star' = 0 => cuts[pi' - 1] = ti' - 1
                    /\ verdict' = "matching" /\ star' # 0 =>
                         /\ cuts[star'] >= match_idx' - 1
                         /\ cuts[pi' - 1] - cuts[star'] = (pi' - 1) - star'
                    /\ verdict' = "trailing" => cuts[pi' - 1] >= ti' - 1
                    /\ verdict' # "no"
  BY <1>1 DEF NothingMissed
<1>2. /\ verdict = "matching" /\ star = 0 => cuts[pi - 1] = ti - 1
      /\ verdict = "matching" /\ star # 0 =>
           /\ cuts[star] >= match_idx - 1
           /\ cuts[pi - 1] - cuts[star] = (pi - 1) - star
      /\ verdict = "trailing" => cuts[pi - 1] >= ti - 1
      /\ verdict # "no"
  BY DEF NothingMissed
<1>3. /\ cuts[pi - 1] \in 0 .. Len(text) /\ cuts[star] \in 0 .. Len(text)
      /\ cuts[Len(pat)] = Len(text)
      /\ cuts \in [0 .. Len(pat) -> 0 .. Len(text)]
  <2>1. cuts \in [0 .. Len(pat) -> 0 .. Len(text)] /\ cuts[Len(pat)] = Len(text)
    BY DEF Splits
  <2>2. pi - 1 \in 0 .. Len(pat) /\ star \in 0 .. Len(pat)
    BY <1>0
  <2> QED
    BY <2>1, <2>2
<1>4. ASSUME pi <= Len(pat)
      PROVE  /\ cuts[pi] \in 0 .. Len(text)
             /\ pat[pi] = "*" => cuts[pi - 1] <= cuts[pi]
             /\ pat[pi] # "*" => cuts[pi] = cuts[pi - 1] + 1 /\ pat[pi] \in {"?", text[cuts[pi]]}
  <2>1. pi \in 1 .. Len(pat) /\ pi \in 0 .. Len(pat)
    BY <1>0, <1>4
  <2>2. Piece(pat, text, cuts, pi)
    BY <2>1 DEF Splits
  <2> QED
    BY <1>3, <2>1, <2>2 DEF Piece
\* the cursors never pass a cut
<1>5. verdict = "matching" => cuts[pi - 1] >= ti - 1
  BY <1>0, <1>2, <1>3 DEF SinceStar
<1>6. ASSUME InText, ~TakesByte, ~AtStar
      PROVE  cuts[pi - 1] # ti - 1
  <2>1. CASE pi <= Len(pat)
    BY <1>0, <1>4, <1>6, <2>1 DEF TakesByte, AtStar
  <2>2. CASE pi = Len(pat) + 1
    BY <1>0, <1>3, <1>6, <2>2 DEF InText
  <2> QED
    BY <1>0, <2>1, <2>2
<1>7. CASE Advance
  <2>1. pi <= Len(pat) /\ pat[pi] \in {"?", text[ti]} /\ ti <= Len(text)
    BY <1>7 DEF Advance, InText, TakesByte
  <2>2. pat[pi] # "*"
    <3>1. text[ti] \in TextChars
      BY <1>0, <2>1, ElementOfSeq
    <3> QED
      BY <2>1, <3>1
  <2>3. cuts[pi] = cuts[pi - 1] + 1
    BY <1>4, <2>1, <2>2
  <2> QED
    <3>1. /\ verdict = "matching" /\ verdict' = verdict /\ star' = star /\ match_idx' = match_idx
          /\ pi' - 1 = pi /\ ti' - 1 = ti
      BY <1>0, <1>7 DEF Advance, InText
    <3>2. CASE star = 0
      BY <1>0, <1>2, <2>3, <3>1, <3>2
    <3>3. CASE star # 0
      <4>1. cuts[star] >= match_idx - 1 /\ cuts[pi - 1] - cuts[star] = (pi - 1) - star
        BY <1>2, <3>1, <3>3
      <4>2. cuts[pi - 1] \in Int /\ cuts[star] \in Int /\ pi \in Int /\ star \in Int
        BY <1>0, <1>3
      <4>3. cuts[pi] - cuts[star] = pi - star
        BY <2>3, <4>1, <4>2
      <4>4. cuts[pi' - 1] = cuts[pi] /\ cuts[star'] = cuts[star]
        BY <3>1
      <4> QED
        BY <3>1, <3>3, <4>1, <4>3, <4>4
    <3> QED
      BY <3>2, <3>3
<1>8. CASE EnterStar
  <2>1. pi <= Len(pat) /\ cuts[pi - 1] <= cuts[pi] /\ cuts[pi] \in 0 .. Len(text)
    BY <1>4, <1>8 DEF EnterStar, AtStar
  <2> QED
    BY <1>0, <1>3, <1>5, <1>8, <2>1 DEF EnterStar, InText
<1>9. CASE Backtrack
  <2>1. cuts[pi - 1] # ti - 1
    BY <1>6, <1>9 DEF Backtrack
  <2>2. cuts[star] >= match_idx
    <3>1. verdict = "matching" /\ star # 0
      BY <1>9 DEF Backtrack, InText
    <3>2. /\ cuts[star] >= match_idx - 1 /\ cuts[pi - 1] - cuts[star] = (pi - 1) - star
          /\ ti - match_idx = (pi - 1) - star
      BY <1>0, <1>2, <3>1 DEF SinceStar
    <3>3. /\ cuts[pi - 1] \in Int /\ cuts[star] \in Int /\ pi \in Int /\ star \in Int
          /\ ti \in Int /\ match_idx \in Int
      BY <1>0, <1>3
    <3> QED
      BY <2>1, <3>2, <3>3
  <2>3. /\ verdict' = "matching" /\ star' = star /\ star # 0 /\ pi' - 1 = star
        /\ match_idx' - 1 = match_idx
    BY <1>0, <1>9 DEF Backtrack, InText
  <2>4. cuts[pi' - 1] = cuts[star] /\ cuts[star'] = cuts[star] /\ cuts[star] \in Int /\ star \in Int
    BY <1>0, <1>3, <2>3
  <2> QED
    BY <2>2, <2>3, <2>4
<1>10. CASE Fail
  BY <1>2, <1>6, <1>10 DEF Fail, InText
<1>11. CASE EndOfText
  BY <1>5, <1>11 DEF EndOfText
<1>12. CASE SkipStar
  <2>1. pi <= Len(pat) /\ cuts[pi - 1] <= cuts[pi] /\ cuts[pi] \in 0 .. Len(text)
    BY <1>4, <1>12 DEF SkipStar, AtStar
  <2> QED
    BY <1>0, <1>2, <1>3, <1>12, <2>1 DEF SkipStar
<1>13. CASE Answer
  <2>1. ti = Len(text) + 1 /\ cuts[pi - 1] >= ti - 1
    BY <1>2, <1>13 DEF SoundInv, Answer
  <2>2. pi = Len(pat) + 1
    BY <1>0, <1>3, <1>4, <1>13, <2>1 DEF Answer, AtStar
  <2> QED
    BY <1>13, <2>2 DEF Answer
<1>14. CASE UNCHANGED matchVars
  BY <1>2, <1>14 DEF matchVars
<1> QED
  BY <1>7, <1>8, <1>9, <1>10, <1>11, <1>12, <1>13, <1>14 DEF MatchNext

---------------------------------------------------------------------------
(* The theorems about the matcher *)

\* What the matcher has consumed always matches, wherever it has gone back
\* to: the pattern before its cursor matches the text before the other.
THEOREM ConsumedMatches == MatchSpec => []PrefixMatches
<1>1. SoundInv => PrefixMatches
  <2> SUFFICES ASSUME SoundInv, verdict \in {"matching", "trailing"}
               PROVE  Glob(SubSeq(pat, 1, pi - 1), SubSeq(text, 1, ti - 1))
    BY DEF PrefixMatches
  <2>1. PICK cuts : Splits(pat, text, cuts, pi - 1, ti - 1)
    BY DEF SoundInv, Consumed
  <2>2. /\ pat \in Seq(PatternChars) /\ text \in Seq(TextChars)
        /\ pi - 1 \in 0 .. Len(pat) /\ ti - 1 \in 0 .. Len(text)
    BY LenProperties DEF SoundInv, MatcherTypeOK
  <2> QED
    BY <2>1, <2>2, SplitsGlob
<1> QED
  BY <1>1, InitSound, StepSound, PTL DEF MatchSpec

\* Going back to the last star only loses no match: on texts without a star
\* of their own, matches_pattern answers what its comment says.
THEOREM MatcherExact ==
  ASSUME "*" \notin TextChars
  PROVE  MatchSpec => []AnswersGlob
<1>1. SoundInv /\ NothingMissed => AnswersGlob
  <2> SUFFICES ASSUME SoundInv, NothingMissed, verdict \in {"yes", "no"}
               PROVE  verdict = "yes" <=> Glob(pat, text)
    BY DEF AnswersGlob
  <2>1. Glob(pat, text) <=> \E cuts : Splits(pat, text, cuts, Len(pat), Len(text))
    BY GlobSplits
  <2> QED
    BY <2>1 DEF SoundInv, NothingMissed
<1>2. MatchInit => SoundInv /\ NothingMissed
  BY InitSound, InitMissed
<1>3. SoundInv /\ NothingMissed /\ [MatchNext]_matchVars
        => (SoundInv /\ NothingMissed)'
  BY StepSound, StepMissed
<1> QED
  BY <1>1, <1>2, <1>3, PTL DEF MatchSpec

===========================================================================
