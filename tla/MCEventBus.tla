--------------------------- MODULE MCEventBus ---------------------------
(* An instance of EventBus for TLC. *)
EXTENDS EventBus, TLC

CONSTANTS c1, c2, c3, c4, c5, A, B, Colon, Created, Deleted, Unknown,
          Timeout, Rejected

MCChars == {A, B, Colon}
MCTopics == {Created, Deleted, Unknown}
MCErrors == {Timeout, Rejected}

Envelope(tenant, key, topic) == [tenant |-> tenant, key |-> key, topic |-> topic]

\* c1 and c2 race for one key of tenant "a"; c3 is tenant "ab", whose key
\* would read the same without the separator.  A rule closes the topic of
\* c4, and nobody serves the one of c5.
MCEvents ==
  (c1 :> Envelope(<<A>>, <<B>>, Created)) @@
  (c2 :> Envelope(<<A>>, <<B>>, Created)) @@
  (c3 :> Envelope(<<A, B>>, <<>>, Deleted)) @@
  (c4 :> Envelope(<<B>>, NoKey, Deleted)) @@
  (c5 :> Envelope(<<B>>, NoKey, Unknown))

\* The first provider retries a timeout once; the second would serve its
\* topic as well and does not retry.
MCRegistrations ==
  << [topics |-> {Created}, maxRetries |-> 1, retryableErrors |-> {Timeout}],
     [topics |-> {Created, Deleted}, maxRetries |-> 0, retryableErrors |-> {}] >>

Rule(tenants, topics, allow) ==
  [tenants |-> tenants, topics |-> topics, allowPublish |-> allow]

\* The first rule opens what the second closes for the same tenant, and
\* closes for tenant "b" what the third would open.
MCRules ==
  << Rule({<<A>>}, {Created}, TRUE),
     Rule({<<B>>}, {Deleted}, FALSE),
     Rule({<<B>>, <<A, B>>}, {Created, Deleted}, TRUE),
     Rule({<<A>>}, {Created, Deleted}, FALSE) >>

=========================================================================
