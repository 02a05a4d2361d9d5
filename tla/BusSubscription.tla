------------------------- MODULE BusSubscription -------------------------
(***************************************************************************)
(* EventBus::subscribe beside EventBus::publish (src/src/bus.rs), over     *)
(* in-process providers (DryRunProvider, src/src/e2e.rs): whether what a   *)
(* publisher hands to the bus gets to who subscribed on the same bus.      *)
(*                                                                         *)
(* Publishing and subscribing are two steps each, interleaved with the     *)
(* task that forwards from the broadcast to the handle of a subscriber.    *)
(* How much of its handle a caller has read, and with it whether a send    *)
(* has to wait, is left open (DryRunSubscription has that); keys, retries  *)
(* and dead letters are in EventBus, and these providers never fail.       *)
(***************************************************************************)
EXTENDS Integers, Sequences, FiniteSets, Functions

CONSTANTS
  Tenants, Topics,
  Globs,          \* texts with wildcards that a caller may subscribe to
  Matched,        \* the topics each of them matches
  Registrations,  \* for each provider the texts one of its patterns matches
  AclRules,       \* rules in order
  DefaultAllow,   \* what holds when no rule matches
  Events, Event,            \* events to publish, and their envelopes
  Subscribers, Request,     \* calls of subscribe, and their arguments
  Ring,     \* events the broadcast keeps for a slow receiver, 32 in the code
  Channel   \* events a handle holds unread, 64 in the code

\* What topic_patterns and rules are matched with is a text, wildcards or not.
Texts == Topics \cup Globs

ASSUME BusAssumption ==
  /\ Topics \cap Globs = {}
  /\ Matched \in [Globs -> SUBSET Topics]
  /\ Registrations \in Seq(SUBSET Texts)
  /\ AclRules \in Seq([tenants : SUBSET Tenants, texts : SUBSET Texts,
                       allowPublish : BOOLEAN, allowSubscribe : BOOLEAN])
  /\ DefaultAllow \in BOOLEAN
  /\ Event \in [Events -> [tenant : Tenants, topic : Topics]]
  /\ Request \in [Subscribers -> [tenant : Tenants, text : Texts, existing : BOOLEAN]]
  /\ Ring \in Nat \ {0} /\ Channel \in Nat \ {0}

VARIABLES
  publish,    \* what became of the publish of an event
  published,  \* DryRunProvider.published of each provider
  subscribe,  \* what became of a call of subscribe
  at,         \* the provider it was routed to, 0 before
  inbox,      \* what its handle has been sent, read or not
  unread,     \* broadcast to its receiver, not taken from there yet
  hand,       \* what its task has taken and not sent yet, at most one event
  audience,   \* history: who was attached when the publish of an event began
  before      \* history: events whose publish had returned when a subscribe began

vars == <<publish, published, subscribe, at, inbox, unread, hand, audience, before>>

---------------------------------------------------------------------------
First(S) == CHOOSE i \in S : \A j \in S : i <= j

RulesFor(tenant, text) ==
  {i \in DOMAIN AclRules : tenant \in AclRules[i].tenants /\ text \in AclRules[i].texts}

\* TopicAcl::allow_publish
AllowPublish(tenant, text) ==
  IF RulesFor(tenant, text) = {} THEN DefaultAllow
  ELSE AclRules[First(RulesFor(tenant, text))].allowPublish

\* Mutant: the other flag of the rule is asked.
AllowSubscribeAsPublish(tenant, text) ==
  IF RulesFor(tenant, text) = {} THEN DefaultAllow
  ELSE AclRules[First(RulesFor(tenant, text))].allowPublish

\* TopicAcl::allow_subscribe
AllowSubscribe(tenant, text) ==
  IF RulesFor(tenant, text) = {} THEN DefaultAllow
  ELSE AclRules[First(RulesFor(tenant, text))].allowSubscribe

Serving(text) == {i \in DOMAIN Registrations : text \in Registrations[i]}

\* EventBus::provider_for_topic, 0 if there is none: the text is matched as
\* it is, also when it is a pattern itself
ProviderForTopic(text) == IF Serving(text) = {} THEN 0 ELSE First(Serving(text))

---------------------------------------------------------------------------
Init ==
  /\ publish = [e \in Events |-> "idle"]
  /\ published = [i \in DOMAIN Registrations |-> <<>>]
  /\ subscribe = [s \in Subscribers |-> "idle"]
  /\ at = [s \in Subscribers |-> 0]
  /\ inbox = [s \in Subscribers |-> <<>>]
  /\ unread = [s \in Subscribers |-> <<>>]
  /\ hand = [s \in Subscribers |-> <<>>]
  /\ audience = [e \in Events |-> {}]
  /\ before = [s \in Subscribers |-> {}]

Attached == {s \in Subscribers : subscribe[s] = "attached"}

\* publish is refused by the ACL, or nobody serves the topic
RefusePublish(e) ==
  /\ publish[e] = "idle"
  /\ \/ ~AllowPublish(Event[e].tenant, Event[e].topic)
     \/ ProviderForTopic(Event[e].topic) = 0
  /\ publish' = [publish EXCEPT ![e] =
       IF AllowPublish(Event[e].tenant, Event[e].topic) THEN "noProvider" ELSE "aclDenied"]
  /\ UNCHANGED <<published, subscribe, at, inbox, unread, hand, audience, before>>

\* publish up to the list of the provider
Push(e) ==
  /\ publish[e] = "idle"
  /\ AllowPublish(Event[e].tenant, Event[e].topic)
  /\ LET i == ProviderForTopic(Event[e].topic) IN
       /\ i # 0
       /\ published' = [published EXCEPT ![i] = Append(@, e)]
  /\ publish' = [publish EXCEPT ![e] = "pushed"]
  /\ audience' = [audience EXCEPT ![e] = Attached]
  /\ UNCHANGED <<subscribe, at, inbox, unread, hand, before>>

\* the broadcast to who is attached to the provider; publish returns
Broadcast(e) ==
  /\ publish[e] = "pushed"
  /\ publish' = [publish EXCEPT ![e] = "ok"]
  /\ unread' = [s \in Subscribers |->
       IF s \in Attached /\ at[s] = ProviderForTopic(Event[e].topic)
       THEN Append(unread[s], e) ELSE unread[s]]
  /\ UNCHANGED <<published, subscribe, at, inbox, hand, audience, before>>

\* subscribe is refused by the ACL, or nobody serves the text
RefuseSubscribe(s) ==
  /\ subscribe[s] = "idle"
  /\ \/ ~AllowSubscribe(Request[s].tenant, Request[s].text)
     \/ ProviderForTopic(Request[s].text) = 0
  /\ subscribe' = [subscribe EXCEPT ![s] =
       IF AllowSubscribe(Request[s].tenant, Request[s].text) THEN "noProvider" ELSE "aclDenied"]
  /\ UNCHANGED <<publish, published, at, inbox, unread, hand, audience, before>>

\* subscribe up to the copy of the list of provider i, which goes to the
\* channel: nobody reads it yet, so a list longer than that is never sent
\* through, and the caller waits for ever
SubscribeTo(s, i) ==
  LET existing == IF Request[s].existing THEN published[i] ELSE <<>> IN
  /\ subscribe[s] = "idle"
  /\ AllowSubscribe(Request[s].tenant, Request[s].text)
  /\ i # 0
  /\ at' = [at EXCEPT ![s] = i]
  /\ \/ /\ Len(existing) <= Channel
        /\ subscribe' = [subscribe EXCEPT ![s] = "attaching"]
        /\ inbox' = [inbox EXCEPT ![s] = existing]
     \/ /\ Len(existing) > Channel
        /\ subscribe' = [subscribe EXCEPT ![s] = "stuck"]
        /\ inbox' = [inbox EXCEPT ![s] = SubSeq(existing, 1, Channel)]
  /\ before' = [before EXCEPT ![s] = {e \in Events : publish[e] = "ok"}]
  /\ UNCHANGED <<publish, published, unread, hand, audience>>

\* Mutant: the last registration that serves the text is asked.
SubscribeAtLast(s) ==
  \E i \in Serving(Request[s].text) :
    (\A j \in Serving(Request[s].text) : j <= i) /\ SubscribeTo(s, i)

Subscribe(s) ==
  ProviderForTopic(Request[s].text) # 0 /\ SubscribeTo(s, ProviderForTopic(Request[s].text))

\* sender.subscribe; the handle is returned
Attach(s) ==
  /\ subscribe[s] = "attaching"
  /\ subscribe' = [subscribe EXCEPT ![s] = "attached"]
  /\ UNCHANGED <<publish, published, at, inbox, unread, hand, audience, before>>

\* the task takes the next event off the broadcast
Recv(s) ==
  /\ subscribe[s] = "attached" /\ hand[s] = <<>>
  /\ unread[s] # <<>> /\ Len(unread[s]) <= Ring
  /\ hand' = [hand EXCEPT ![s] = <<Head(unread[s])>>]
  /\ unread' = [unread EXCEPT ![s] = Tail(@)]
  /\ UNCHANGED <<publish, published, subscribe, at, inbox, audience, before>>

\* it is more than the ring behind: recv fails, which the loop takes for the
\* end of the stream
Lag(s) ==
  /\ subscribe[s] = "attached" /\ hand[s] = <<>> /\ Len(unread[s]) > Ring
  /\ subscribe' = [subscribe EXCEPT ![s] = "lagged"]
  /\ unread' = [unread EXCEPT ![s] = <<>>]
  /\ UNCHANGED <<publish, published, at, inbox, hand, audience, before>>

\* there is room in the channel, at once or when the caller has read
Send(s) ==
  /\ subscribe[s] = "attached" /\ hand[s] # <<>>
  /\ inbox' = [inbox EXCEPT ![s] = @ \o hand[s]]
  /\ hand' = [hand EXCEPT ![s] = <<>>]
  /\ UNCHANGED <<publish, published, subscribe, at, unread, audience, before>>

\* the caller drops the handle, and with it what it would have been sent
Close(s) ==
  /\ subscribe[s] = "attached"
  /\ subscribe' = [subscribe EXCEPT ![s] = "closed"]
  /\ unread' = [unread EXCEPT ![s] = <<>>]
  /\ hand' = [hand EXCEPT ![s] = <<>>]
  /\ UNCHANGED <<publish, published, at, inbox, audience, before>>

Next ==
  \/ \E e \in Events : RefusePublish(e) \/ Push(e) \/ Broadcast(e)
  \/ \E s \in Subscribers : RefuseSubscribe(s) \/ Subscribe(s) \/ Attach(s) \/ Close(s)
                            \/ Recv(s) \/ Lag(s) \/ Send(s)

Spec == Init /\ [][Next]_vars

---------------------------------------------------------------------------
(* Properties *)

\* The two met in time: the subscription was there when publish began, or
\* asked for what was there and publish had returned by then.
MetInTime(s, e) ==
  /\ publish[e] = "ok" /\ subscribe[s] = "attached"
  /\ s \in audience[e] \/ (Request[s].existing /\ e \in before[s])

\* An event of the topic is one the caller asked for, and subscribe goes to
\* the provider its publish goes to.  The README subscribes to "topic.*",
\* which may be served by another provider than the topics it matches.
Covers(text, topic) ==
  \/ text = topic
  \/ /\ text \in Globs /\ topic \in Matched[text]
     /\ ProviderForTopic(text) = ProviderForTopic(topic)

\* What the subscriber has been sent, or is on its way there.
Bound(s) == Range(inbox[s]) \cup Range(hand[s]) \cup Range(unread[s])

\* Every event a subscriber covers that the bus has published since, and
\* with deliver_existing each one from before, has been sent to it or is on
\* its way, whatever else is registered, published or subscribed meanwhile,
\* until it is more than the ring behind when its task asks for the next
\* event.  (An event published while subscribe runs may be missed.)
ReachesSubscribers ==
  \A s \in Subscribers, e \in Events :
    MetInTime(s, e) /\ Covers(Request[s].text, Event[e].topic) => e \in Bound(s)

\* Rule i is the one that decides for a tenant and a text.
Decides(i, tenant, text) ==
  /\ tenant \in AclRules[i].tenants /\ text \in AclRules[i].texts
  /\ \A j \in 1 .. (i - 1) : tenant \in AclRules[j].tenants => text \notin AclRules[j].texts

\* Nothing is sent to a subscriber unless the first rule about it lets it
\* subscribe and the first rule about the event lets it be published.
SentAsAllowed ==
  \A s \in Subscribers : \A e \in Range(inbox[s]) : \A i \in DOMAIN AclRules :
    /\ Decides(i, Request[s].tenant, Request[s].text) => AclRules[i].allowSubscribe
    /\ Decides(i, Event[e].tenant, Event[e].topic) => AclRules[i].allowPublish

=========================================================================
