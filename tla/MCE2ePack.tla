---------------------------- MODULE MCE2ePack ----------------------------
(* Instances of E2ePack for TLC. *)
EXTENDS E2ePack, TLC

CONSTANTS n1, n2, in, f, github, slack, req, setup, main

MCNodeIds == {n1, n2, in}
MCFields == {f}
MCNames == {github, slack}
MCFlowIds == {req, setup, main}
MCRequirementsIds == {req}
MCSetupIds == {setup}

Provider(name, kind, topics) == [name |-> name, kind |-> kind, topics |-> topics]

Valid(needed) == <<"valid", [EmptyObject EXCEPT !.needs = needed]>>

Plan(ops) == [EmptyObject EXCEPT !.ops = ops]

\* A pack that passes, with or without live commands.
Complete ==
  [readable |-> TRUE, events |-> TRUE,
   providers |-> <<Provider(github, "Source", FALSE), Provider(slack, "Broker", TRUE)>>,
   entryFlows |-> <<main>>, flows |-> <<>>,
   requirements |-> Valid({"subscriptions"}),
   setup |-> "object", answers |-> {}, messages |-> {"ingest", "emit"},
   expected |-> "items", steady |-> TRUE]

DryRun ==
  [live |-> FALSE, dryRun |-> TRUE, report |-> TRUE, mayWrite |-> TRUE,
   bridgeCmd |-> FALSE, brokerCmd |-> FALSE, filter |-> NoFilter]

LiveRun ==
  [live |-> TRUE, dryRun |-> FALSE, report |-> FALSE, mayWrite |-> FALSE,
   bridgeCmd |-> TRUE, brokerCmd |-> TRUE, filter |-> NoFilter]

AllOptions ==
  {DryRun, LiveRun,
   [DryRun EXCEPT !.filter = slack], [LiveRun EXCEPT !.filter = github],
   [DryRun EXCEPT !.mayWrite = FALSE], [DryRun EXCEPT !.live = TRUE],
   [LiveRun EXCEPT !.bridgeCmd = FALSE], [LiveRun EXCEPT !.brokerCmd = FALSE]}

Runs(lists, opts) == {[packs |-> l, options |-> o] : l \in lists, o \in opts}

\* One pack in every combination of providers and fixtures.
ProviderLists ==
  {<<>>,
   <<Provider(github, "Source", FALSE)>>,
   <<Provider(github, "Bridge", FALSE)>>,
   <<Provider(github, "Sink", FALSE), Provider(slack, "Broker", TRUE)>>,
   <<Provider(slack, "Broker", FALSE), Provider(github, "Broker", TRUE)>>}

VariedPacks ==
  {[Complete EXCEPT !.providers = ps, !.requirements = rq, !.messages = ms,
                    !.expected = ex] :
     ps \in ProviderLists,
     rq \in {Valid(S) : S \in SUBSET Needs}
            \cup {<<"missing", EmptyObject>>,
                  <<"valid", [EmptyObject EXCEPT !.blank = TRUE]>>},
     ms \in {{"ingest", "emit"}, {"ingest"}, {"emit"}},
     ex \in {"missing", "scalar", "empty", "items"}}

\* Packs that cannot be read, are not for events, or have no setup fixture.
OddPacks ==
  {[Complete EXCEPT !.readable = FALSE], [Complete EXCEPT !.events = FALSE],
   [Complete EXCEPT !.setup = "missing"], [Complete EXCEPT !.setup = "scalar"],
   [Complete EXCEPT !.steady = FALSE], [Complete EXCEPT !.expected = "empty"],
   [Complete EXCEPT !.providers = <<Provider(github, "Bridge", FALSE)>>,
                    !.requirements = Valid({})],
   Complete}

\* Two and no packs.
PackPairs == {<<p, q>> : p \in OddPacks, q \in OddPacks} \cup {<<>>}

\* A pack without fixtures for what its flow is to provide, with every
\* flow of up to three nodes.
FlowNodes ==
  [component : {"questions"}, required : {{}}, optional : {{}, {f}},
   next : MCNodeIds]
  \cup [component : {"questions"}, required : {{f}}, optional : {{}},
        next : MCNodeIds \cup {"end"}]
  \cup [component : {"template"}, renders : {"scalar"}, object : {EmptyObject}]
  \cup [component : {"template"}, renders : {"object"},
        object : {[needs |-> {"webhooks"}, blank |-> FALSE, ops |-> {"webhooks"}]}]
  \cup [component : {"template"}, renders : {"invalid"}, object : {EmptyObject}]
  \cup [component : {"unsupported"}]

Flows ==
  {[loads |-> TRUE, start |-> s, nodes |-> ns, first |-> n1] :
     s \in {NoStart, n2}, ns \in [MCNodeIds -> FlowNodes]}
  \cup {[loads |-> l, start |-> NoStart, nodes |-> ns, first |-> n1] :
          l \in BOOLEAN, ns \in [{n1, n2} -> FlowNodes]}

Flow1(object) ==
  [loads |-> TRUE, start |-> in, first |-> in,
   nodes |-> (in :> [component |-> "template", renders |-> "object", object |-> object])]

FlowPacks ==
  {[Complete EXCEPT !.providers = <<Provider(github, "Sink", FALSE)>>,
                    !.requirements = <<"missing", EmptyObject>>,
                    !.flows = <<[id |-> req, flow |-> fl],
                                [id |-> setup, flow |-> Flow1(Plan({"webhooks"}))]>>] :
     fl \in Flows}
  \cup
  {[Complete EXCEPT !.providers = <<Provider(github, "Sink", FALSE)>>,
                    !.requirements = Valid({"webhooks"}),
                    !.entryFlows = <<main, setup>>,
                    !.answers = {f},
                    !.flows = <<[id |-> setup, flow |-> fl]>>] :
     fl \in Flows}

\* An entry flow the manifest lacks hides the flow it does have.
HiddenFlow ==
  [Complete EXCEPT !.entryFlows = <<req>>,
                   !.flows = <<[id |-> setup, flow |-> Flow1(Plan({"subscriptions"}))]>>]

MCScenarios ==
  Runs({<<p>> : p \in VariedPacks}, AllOptions)
  \cup Runs(PackPairs, {DryRun, LiveRun})
  \cup Runs({<<p>> : p \in FlowPacks}, {[DryRun EXCEPT !.report = FALSE]})
  \cup Runs({<<HiddenFlow, Complete>>}, AllOptions)

=========================================================================
