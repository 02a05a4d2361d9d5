---------------------------- MODULE E2ePack ----------------------------
(***************************************************************************)
(* The end-to-end harness (src/src/e2e.rs): run_e2e_with takes the packs   *)
(* of a directory one after the other, runs the stages of each under one   *)
(* timeout, and reports a verdict for every pack.                          *)
(*                                                                         *)
(* A stage is work that ends at once, a future that waits, or a sequence   *)
(* of live commands.  A command is a child process the thread waits for    *)
(* without an await: the timeout cannot fire meanwhile, and never fires    *)
(* later unless a stage waits.  Every runner may wait, for a caller        *)
(* may bring its own (E2eDependencies); with the default ones only the     *)
(* subscriptions stage of a dry run does.                                  *)
(*                                                                         *)
(* What a pack holds is given, what waits and commands come to is not.     *)
(* Payloads, wording, timing figures and the listing of the directory are  *)
(* left out.                                                               *)
(***************************************************************************)
EXTENDS ConfigFlow, Sequences

CONSTANTS
  Scenarios,     \* runs: the packs discover_packs returns, and the options
  Waits,         \* stages whose runner may wait
  Names,         \* names of providers
  NoFilter,      \* stands for a run without a provider filter
  FlowIds,
  RequirementsIds,  \* flow ids that contain "requirements"
  SetupIds          \* flow ids that contain "setup" or "provision"

StageNames == <<"requirements", "setup", "ingest", "emit", "subscriptions">>

Stages == {StageNames[i] : i \in DOMAIN StageNames}

Kinds == {"Source", "Sink", "Bridge", "Broker"}

Statuses == {"Pass", "Fail", "Skip"}

\* "topics" says whether the provider declares any.
ProviderSpecs == [name : Names, kind : Kinds, topics : BOOLEAN]

\* A fixture is missing (or does not parse), or is what it should be.
IsPack(p) ==
  /\ p.readable \in BOOLEAN
  /\ p.events \in BOOLEAN
  /\ p.providers \in Seq(ProviderSpecs)
  /\ p.entryFlows \in Seq(FlowIds)
  /\ \A i \in DOMAIN p.flows : p.flows[i].id \in FlowIds /\ IsFlow(p.flows[i].flow)
  /\ p.requirements \in {"missing"} \X {EmptyObject} \cup {"valid"} \X Objects
  /\ p.setup \in {"missing", "scalar", "object"}
  /\ p.answers \in SUBSET Fields
  /\ p.messages \in SUBSET {"ingest", "emit"}
  /\ p.expected \in {"missing", "scalar", "empty", "items"}
  /\ p.steady \in BOOLEAN

Options ==
  [live : BOOLEAN, dryRun : BOOLEAN, report : BOOLEAN, mayWrite : BOOLEAN,
   bridgeCmd : BOOLEAN, brokerCmd : BOOLEAN, filter : Names \cup {NoFilter}]

ASSUME HarnessAssumption ==
  /\ \A run \in Scenarios :
       /\ run.options \in Options
       /\ Len(run.packs) \in Nat /\ DOMAIN run.packs = 1 .. Len(run.packs)
       /\ \A i \in DOMAIN run.packs : IsPack(run.packs[i])
  /\ Waits \subseteq Stages
  /\ NoFilter \notin Names
  /\ RequirementsIds \subseteq FlowIds /\ SetupIds \subseteq FlowIds

VARIABLES
  packs,        \* the packs found, in order
  options,
  outcome,      \* "running", "reported" or "error"
  index,        \* the pack the loop is at, 0 before it starts
  stage,        \* "open", a stage, or "verdict"
  phase,        \* "ready", "awaiting" or "blocked" on a command
  command,      \* the live command a stage is at, 0 if none
  expired,      \* the timeout of the current pack has run out
  needs,        \* requirements.state, what the setup has to provide for
  stages,       \* status of each stage of the current pack
  diagnostics,  \* stages of its diagnostics, in order
  reports,
  summary

vars == <<packs, options, outcome, index, stage, phase, command, expired,
          needs, stages, diagnostics, reports, summary>>

input == <<packs, options>>

---------------------------------------------------------------------------
(* What a pack holds *)

First(S) == CHOOSE i \in S : \A j \in S : i <= j

\* the providers the filter leaves
Filtered(specs, filter) ==
  SelectSeq(specs, LAMBDA s : filter = NoFilter \/ s.name = filter)

ProvidersOf(p) == Filtered(p.providers, options.filter)

KindsOf(p) == {ProvidersOf(p)[i].kind : i \in DOMAIN ProvidersOf(p)}

\* the first broker of the pack
BrokerOf(p) ==
  ProvidersOf(p)[First({i \in DOMAIN ProvidersOf(p) :
                          ProvidersOf(p)[i].kind = "Broker"})]

\* requirements_flow_id, setup_flow_id: the first entry flow whose id has
\* the word, else the first flow of the manifest; {} if there is none
FlowIdFor(p, ids) ==
  LET entries == {i \in DOMAIN p.entryFlows : p.entryFlows[i] \in ids}
      listed == {i \in DOMAIN p.flows : p.flows[i].id \in ids}
  IN CASE entries # {} -> {p.entryFlows[First(entries)]}
       [] entries = {} /\ listed # {} -> {p.flows[First(listed)].id}
       [] OTHER -> {}

\* The flow of that id is walked; "none" when the manifest lacks it.
FlowOutput(p, ids, given) ==
  LET found == {i \in DOMAIN p.flows : p.flows[i].id \in FlowIdFor(p, ids)}
  IN IF found = {} THEN Failed("none")
     ELSE RunConfigFlow(p.flows[First(found)].flow, given)

\* CompositeRequirementsRunner: an error of the flow is an error of the
\* stage; no flow, or an output that does not parse, means the fixture.
RequirementsOf(p) ==
  LET out == FlowOutput(p, RequirementsIds, {})
  IN CASE out.kind \in {"error", "limit"} -> <<"missing", EmptyObject>>
       [] out.kind = "object" -> <<"valid", out.object>>
       [] out.kind \in {"none", "scalar"} -> p.requirements

\* FixtureProvisionRunner never plans webhooks
FixturePlan(p, needed) ==
  IF "subscriptions" \notin needed THEN <<"valid", {}>>
  ELSE CASE p.expected = "items" -> <<"valid", {"subscriptions"}>>
         [] p.expected = "empty" -> <<"valid", {}>>
         [] p.expected \in {"missing", "scalar"} -> <<"missing", {}>>

\* CompositeProvisionRunner, the operations of its plan.  It does not look
\* at the provider, so all providers of a pack get the same plan.
PlanOf(p, needed) ==
  LET out == FlowOutput(p, SetupIds, p.answers)
  IN CASE out.kind \in {"error", "limit"} -> <<"missing", {}>>
       [] out.kind = "object" -> <<"valid", out.object.ops>>
       [] out.kind \in {"none", "scalar"} -> FixturePlan(p, needed)

\* Mutant: a plan that lacks a required webhook is good enough.
SetupHoldsNoWebhooks(p, needed) ==
  /\ p.setup = "object"
  /\ PlanOf(p, needed)[1] = "valid"
  /\ p.steady
  /\ needed \cap {"subscriptions"} \subseteq PlanOf(p, needed)[2]

\* run_setup: the plan exists, is the same twice, and has the operations
\* the requirements call for
SetupHolds(p, needed) ==
  /\ p.setup = "object"
  /\ PlanOf(p, needed)[1] = "valid"
  /\ p.steady
  /\ needed \subseteq PlanOf(p, needed)[2]

\* FixtureSubscriptionRunner up to its wait: without a declared topic the
\* provider is registered for none and the bus finds nobody to subscribe to.
BrokerHolds(p) ==
  /\ p.expected \in {"empty", "items"}
  /\ "Broker" \in KindsOf(p)
  /\ options.live \/ BrokerOf(p).topics

\* What decides a stage before it waits or calls a command.
Holds(p, s, needed) ==
  /\ s = "requirements" =>
       RequirementsOf(p)[1] = "valid" /\ ~RequirementsOf(p)[2].blank
  /\ s = "setup" => SetupHolds(p, needed)
  /\ s \in {"ingest", "emit"} =>
       s \in p.messages /\ (options.live => options.bridgeCmd)
  /\ s = "subscriptions" =>
       BrokerHolds(p) /\ (options.live => options.brokerCmd)

\* The live protocol: one request for ingest and emit, and subscribe,
\* publish, next_event, ack_event for a subscription.
CommandsOf(s) ==
  IF options.live /\ s \in {"ingest", "emit"} THEN 1
  ELSE IF options.live /\ s = "subscriptions" THEN 4
  ELSE 0

\* Mutant: the subscriptions stage only looks at the kinds of providers.
AppliesByKind(p, s, needed) ==
  /\ s = "ingest" => KindsOf(p) \cap {"Source", "Bridge"} # {}
  /\ s = "emit" => KindsOf(p) \cap {"Sink", "Bridge"} # {}
  /\ s = "subscriptions" => "Broker" \in KindsOf(p)

\* The stages a pack has to go through.
Applies(p, s, needed) ==
  /\ s = "ingest" => KindsOf(p) \cap {"Source", "Bridge"} # {}
  /\ s = "emit" => KindsOf(p) \cap {"Sink", "Bridge"} # {}
  /\ s = "subscriptions" => "Broker" \in KindsOf(p) \/ "subscriptions" \in needed

\* overall_status
OverallStatus(status) ==
  IF \E s \in Stages : status[s] = "Fail" THEN "Fail"
  ELSE IF \A s \in Stages : status[s] = "Skip" THEN "Skip"
  ELSE "Pass"

Counted(status) == Cardinality({i \in DOMAIN reports : reports[i].status = status})

\* summarize
Summarize ==
  [total |-> Len(reports), pass |-> Counted("Pass"),
   fail |-> Counted("Fail"), skip |-> Counted("Skip")]

---------------------------------------------------------------------------
NoneRun == [s \in Stages |-> "Skip"]

AllFailed == [s \in Stages |-> "Fail"]

Init ==
  /\ \E run \in Scenarios : packs = run.packs /\ options = run.options
  /\ outcome = "running"
  /\ index = 0
  /\ stage = "open"
  /\ phase = "ready"
  /\ command = 0
  /\ expired = FALSE
  /\ needs = {}
  /\ stages = NoneRun
  /\ diagnostics = <<>>
  /\ reports = <<>>
  /\ summary = [total |-> 0, pass |-> 0, fail |-> 0, skip |-> 0]

Pack == packs[index]

Active == outcome = "running" /\ index \in DOMAIN packs

At(s) == Active /\ stage = s /\ phase = "ready"

\* run_e2e_with before its loop: live and dry run exclude each other, a dry
\* run writes no report unless the environment allows it, and there must be
\* a pack.
Refused ==
  \/ options.live /\ options.dryRun
  \/ options.dryRun /\ options.report /\ ~options.mayWrite
  \/ packs = <<>>

Refuse ==
  /\ outcome = "running" /\ index = 0
  /\ Refused
  /\ outcome' = "error"
  /\ UNCHANGED <<input, index, stage, phase, command, expired, needs, stages,
                 diagnostics, reports, summary>>

StartRun ==
  /\ outcome = "running" /\ index = 0
  /\ ~Refused
  /\ index' = 1
  /\ UNCHANGED <<input, outcome, stage, phase, command, expired, needs, stages,
                 diagnostics, reports, summary>>

\* The report of the current pack is pushed, the next call of run_pack has
\* its own local state and its own timeout.
Push(status, state, about) ==
  /\ reports' = Append(reports, [pack |-> index, status |-> status,
                                 stages |-> state, diagnostics |-> about])
  /\ index' = index + 1
  /\ stage' = "open"
  /\ phase' = "ready"
  /\ command' = 0
  /\ expired' = FALSE
  /\ needs' = {}
  /\ stages' = NoneRun
  /\ diagnostics' = <<>>
  /\ UNCHANGED <<input, outcome, summary>>

\* report_to_pack_report for an Err: all stages fail, and one diagnostic
\* without a stage says why.
PackFails == Push("Fail", AllFailed, <<"pack">>)

After(s) ==
  IF s = "subscriptions" THEN "verdict"
  ELSE StageNames[1 + CHOOSE i \in DOMAIN StageNames : StageNames[i] = s]

\* The stage ends with a status, and with a diagnostic where there is one.
EndStage(status, said) ==
  /\ stages' = [stages EXCEPT ![stage] = status]
  /\ diagnostics' = IF said THEN Append(diagnostics, stage) ELSE diagnostics
  /\ stage' = After(stage)
  /\ phase' = "ready"
  /\ command' = 0
  /\ UNCHANGED <<input, outcome, index, expired, reports, summary>>

Speaks(s, status) == s \in {"requirements", "setup"} \/ status = "Fail"

\* open_pack, the events section, the filter
OpenFails ==
  /\ At("open")
  /\ ~Pack.readable \/ ~Pack.events \/ ProvidersOf(Pack) = <<>>
  /\ PackFails

OpenPack ==
  /\ At("open")
  /\ Pack.readable /\ Pack.events /\ ProvidersOf(Pack) # <<>>
  /\ stage' = "requirements"
  /\ UNCHANGED <<input, outcome, index, phase, command, expired, needs, stages,
                 diagnostics, reports, summary>>

\* a stage the pack has no use for keeps its status
SkipStage ==
  /\ \E s \in Stages : At(s)
  /\ ~Applies(Pack, stage, needs)
  /\ stage' = After(stage)
  /\ UNCHANGED <<input, outcome, index, phase, command, expired, needs, stages,
                 diagnostics, reports, summary>>

\* The work of the stage is done and Ok; requirements.state is set.
StagePasses ==
  /\ needs' = IF stage = "requirements" THEN RequirementsOf(Pack)[2].needs ELSE needs
  /\ EndStage("Pass", Speaks(stage, "Pass"))

\* The stage is Err, or a panic that catch_unwind turned into one: the "?"
\* after the requirements stage ends the pack, the others go on.
StageFails ==
  IF stage = "requirements" THEN PackFails
  ELSE EndStage("Fail", Speaks(stage, "Fail")) /\ UNCHANGED needs

FailAtOnce ==
  /\ \E s \in Stages : At(s)
  /\ Applies(Pack, stage, needs)
  /\ ~Holds(Pack, stage, needs)
  /\ StageFails

PassAtOnce ==
  /\ \E s \in Stages \ Waits : At(s)
  /\ Applies(Pack, stage, needs)
  /\ Holds(Pack, stage, needs)
  /\ CommandsOf(stage) = 0
  /\ StagePasses

\* the runner of the stage reaches an await that is not ready
StageWaits ==
  /\ \E s \in Waits : At(s)
  /\ Applies(Pack, stage, needs)
  /\ Holds(Pack, stage, needs)
  /\ CommandsOf(stage) = 0
  /\ phase' = "awaiting"
  /\ UNCHANGED <<input, outcome, index, stage, command, expired, needs, stages,
                 diagnostics, reports, summary>>

\* What it waited for comes, even after the deadline: tokio's timeout polls
\* the future before it looks at the clock.
WaitSucceeds ==
  /\ Active /\ phase = "awaiting"
  /\ StagePasses

\* It never comes, or not within the 500 ms of a subscription.
WaitFails ==
  /\ Active /\ phase = "awaiting"
  /\ StageFails

\* run_command_json: the child process is started and waited for
StartCommand ==
  /\ \E s \in Stages : At(s)
  /\ Applies(Pack, stage, needs)
  /\ Holds(Pack, stage, needs)
  /\ CommandsOf(stage) > 0
  /\ phase' = "blocked"
  /\ command' = 1
  /\ UNCHANGED <<input, outcome, index, stage, expired, needs, stages,
                 diagnostics, reports, summary>>

\* the answer is in order and the protocol goes on with the next command
NextCommand ==
  /\ Active /\ phase = "blocked"
  /\ command < CommandsOf(stage)
  /\ command' = command + 1
  /\ UNCHANGED <<input, outcome, index, stage, phase, expired, needs, stages,
                 diagnostics, reports, summary>>

LastCommandSucceeds ==
  /\ Active /\ phase = "blocked"
  /\ command = CommandsOf(stage)
  /\ StagePasses

\* It exits with an error, or its answer is not what the protocol says.
CommandFails ==
  /\ Active /\ phase = "blocked"
  /\ StageFails

\* The 20 seconds of the pack are over; the clock runs while a command does.
Expire ==
  /\ Active
  /\ ~expired
  /\ expired' = TRUE
  /\ UNCHANGED <<input, outcome, index, stage, phase, command, needs, stages,
                 diagnostics, reports, summary>>

\* Mutant: the timeout looks at nothing but a child process.
TimeoutFiresOnCommands ==
  /\ Active /\ phase = "blocked" /\ expired
  /\ PackFails

\* timeout(..) drops the future of the pack at the await it is at.
TimeoutFires ==
  /\ Active /\ phase = "awaiting" /\ expired
  /\ PackFails

ClosePack ==
  /\ At("verdict")
  /\ Push(OverallStatus(stages), stages, diagnostics)

\* After the last pack; writing the report may fail, and then the caller
\* gets the error in place of the report.
Finish(written) ==
  /\ outcome = "running"
  /\ index = Len(packs) + 1 /\ index > 1
  /\ options.report \/ written
  /\ summary' = Summarize
  /\ outcome' = IF written THEN "reported" ELSE "error"
  /\ UNCHANGED <<input, index, stage, phase, command, expired, needs, stages,
                 diagnostics, reports>>

\* What the thread of the harness does when nothing holds it up
Progress ==
  \/ Refuse \/ StartRun \/ OpenFails \/ OpenPack
  \/ SkipStage \/ FailAtOnce \/ PassAtOnce \/ StageWaits \/ StartCommand
  \/ TimeoutFires \/ ClosePack
  \/ \E written \in BOOLEAN : Finish(written)

CommandEnds == NextCommand \/ LastCommandSucceeds \/ CommandFails

Next == Progress \/ Expire \/ WaitSucceeds \/ WaitFails \/ CommandEnds

Spec == Init /\ [][Next]_vars

\* The harness is polled and the clock goes on; neither the runners nor the
\* commands have to come to an end.
FairSpec == Spec /\ WF_vars(Progress) /\ WF_vars(Expire)

---------------------------------------------------------------------------
(* Properties *)

\* What a pack must hold to pass, read off the pack alone.
NeedsOf(p) == RequirementsOf(p)[2].needs

Deserves(p) ==
  /\ p.readable /\ p.events /\ ProvidersOf(p) # <<>>
  /\ RequirementsOf(p)[1] = "valid" /\ ~RequirementsOf(p)[2].blank
  /\ p.setup = "object" /\ p.steady
  /\ PlanOf(p, NeedsOf(p))[1] = "valid"
  /\ NeedsOf(p) \subseteq PlanOf(p, NeedsOf(p))[2]
  /\ KindsOf(p) \cap {"Source", "Bridge"} # {} => "ingest" \in p.messages
  /\ KindsOf(p) \cap {"Sink", "Bridge"} # {} => "emit" \in p.messages
  /\ "Broker" \in KindsOf(p) \/ "subscriptions" \in NeedsOf(p) =>
       /\ p.expected \in {"empty", "items"}
       /\ "Broker" \in KindsOf(p)
       /\ options.live \/ BrokerOf(p).topics

\* The walk of a config flow gives what the flow yields (see ConfigFlow),
\* both when the requirements stage walks it and when the setup stage does:
\* the bound of e2e.rs:1189 cuts off cycles and nothing else.
FlowsWalkedExactly ==
  Active /\ stage = "open" =>
    \A j \in DOMAIN Pack.flows : \A given \in {{}, Pack.answers} :
      WalkIsExact(Pack.flows[j].flow, given)

\* A pack is reported as passed only if it holds everything its own
\* requirements and provider kinds call for, whatever packs ran before it
\* and however its waits, commands and deadline went; and a pack that holds
\* all of it fails only where a stage had to wait or to call a command.
VerdictEarned ==
  \A i \in DOMAIN reports :
    /\ reports[i].status = "Pass" => Deserves(packs[i])
    /\ \/ reports[i].status = "Pass"
       \/ ~Deserves(packs[i])
       \/ options.live
       \/ \E s \in Waits : Applies(packs[i], s, NeedsOf(packs[i]))

Mentions(r, s) == \E i \in DOMAIN r.diagnostics : r.diagnostics[i] = s

\* A stage-by-stage report leaves out exactly the stages its pack has no use
\* for, names a diagnostic for each stage that failed, and fails if one did.
StagewiseReport(r, p) ==
  /\ (r.stages["ingest"] = "Skip") = (KindsOf(p) \cap {"Source", "Bridge"} = {})
  /\ (r.stages["emit"] = "Skip") = (KindsOf(p) \cap {"Sink", "Bridge"} = {})
  /\ (r.stages["subscriptions"] = "Skip")
       = ("Broker" \notin KindsOf(p) /\ "subscriptions" \notin NeedsOf(p))
  /\ r.stages["requirements"] = "Pass" /\ r.stages["setup"] # "Skip"
  /\ \A s \in Stages : r.stages[s] = "Fail" => Mentions(r, s)
  /\ (r.status = "Fail") = (\E s \in Stages : r.stages[s] = "Fail")

\* Every pack gets one report, in order, that either accounts for its stages
\* one by one or fails all of them with a diagnostic of its own; the summary
\* of a finished run counts every pack as passed or failed, none as skipped.
ReportAccountsForAll ==
  /\ \A i \in DOMAIN reports :
       /\ reports[i].pack = i
       /\ \/ StagewiseReport(reports[i], packs[i])
          \/ /\ reports[i].stages = AllFailed /\ reports[i].status = "Fail"
             /\ reports[i].diagnostics = <<"pack">>
  /\ outcome = "reported" =>
       /\ Len(reports) = Len(packs)
       /\ summary.pass + summary.fail = Len(packs) /\ summary.skip = 0

\* A run ends, whatever its runners do, unless a live command hangs: the
\* timeout reaches every await and no command.
RunEnds == <>(outcome # "running") \/ <>[](phase = "blocked")

=========================================================================
