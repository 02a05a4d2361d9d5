----------------------- MODULE MCPackRegistration -----------------------
(* An instance of PackRegistration for TLC. *)
EXTENDS PackRegistration

CONSTANTS a, b, d1, d2

MCNames == {a, b}
MCTopics == {d1, d2}
MCDefaultPolicy == [maxRetries |-> 3, delay |-> 0]

Silent == [dlq |-> None, maxRetries |-> None, delay |-> None]

Pack(specs, onA, onB) ==
  [loads |-> TRUE, providers |-> specs,
   annotations |-> [n \in MCNames |-> IF n = a THEN onA ELSE onB]]

Provider(name, kind) == [name |-> name, kind |-> kind]

\* Two providers and a topic for one; the other with half a policy and a
\* bridge; a name twice in a pack, with annotations for a name it lacks; a
\* count that does not fit; a pack that does not load.
MCPacks ==
  {Pack(<<Provider(a, "other"), Provider(b, "other")>>,
        [Silent EXCEPT !.dlq = d1], Silent),
   Pack(<<Provider(a, "other"), Provider(b, "bridge")>>,
        [Silent EXCEPT !.maxRetries = 1], [Silent EXCEPT !.dlq = d2]),
   Pack(<<Provider(b, "other"), Provider(b, "other")>>,
        [Silent EXCEPT !.dlq = d2], [Silent EXCEPT !.maxRetries = U32 + 2, !.delay = 5]),
   [loads |-> FALSE, providers |-> <<>>, annotations |-> [n \in MCNames |-> Silent]]}

Policy(count) == [maxRetries |-> count, delay |-> 7]

\* No map, one that names a topic, one that names a policy.
MCOverrideMaps ==
  {[n \in {} |-> Silent],
   [n \in {a} |-> [dlq |-> d2, retry |-> None]],
   [n \in MCNames |-> [dlq |-> None, retry |-> Policy(2)]]}

MCOwnSettings == {[dlq |-> d1, retry |-> Policy(0)], [dlq |-> None, retry |-> DefaultPolicy]}

=========================================================================
