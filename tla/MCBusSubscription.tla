------------------------ MODULE MCBusSubscription ------------------------
(* An instance of BusSubscription for TLC. *)
EXTENDS BusSubscription, TLC

CONSTANTS A, B, orders, bills, nothing, allOf,
          e1, e2, e3, e4, s1, s2, s3, s4

MCTenants == {A, B}
\* nobody serves the last
MCTopics == {orders, bills, nothing}
MCMatched == allOf :> {orders, bills}

\* The patterns "x.orders" and "x.*", where x.* is the text allOf.
MCRegistrations == << {orders}, {orders, bills, allOf} >>

Rule(tenants, texts, publish_, subscribe_) ==
  [tenants |-> tenants, texts |-> texts, allowPublish |-> publish_,
   allowSubscribe |-> subscribe_]

\* A may only publish bills, B only subscribe to them; what is open to both
\* in the last rule is decided before.
MCRules ==
  << Rule({A}, {bills}, TRUE, FALSE), Rule({B}, {bills}, FALSE, TRUE),
     Rule({A, B}, {bills}, TRUE, TRUE) >>

MCEvent ==
  (e1 :> [tenant |-> A, topic |-> orders]) @@
  (e2 :> [tenant |-> A, topic |-> bills]) @@
  (e3 :> [tenant |-> A, topic |-> bills]) @@
  (e4 :> [tenant |-> B, topic |-> bills])

\* e2 and e3 only differ in name.
Alike == Permutations({e2, e3})

MCRequest ==
  (s1 :> [tenant |-> B, text |-> orders, existing |-> FALSE]) @@
  (s2 :> [tenant |-> B, text |-> allOf, existing |-> TRUE]) @@
  (s3 :> [tenant |-> A, text |-> bills, existing |-> TRUE]) @@
  (s4 :> [tenant |-> A, text |-> nothing, existing |-> TRUE])

=========================================================================
