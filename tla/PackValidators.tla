------------------------- MODULE PackValidators -------------------------
(***************************************************************************)
(* The two validators a host runs on an events pack: the native one, three *)
(* PackValidators over the manifest (crates/greentic-events-validate), and *)
(* the WASM component, over the manifest and the list of files in the pack *)
(* (crates/greentic-events-pack-validator).  They were written apart, find *)
(* out on their own whether the pack is theirs, and share three codes.     *)
(*                                                                         *)
(* Of a text only what the validators test is kept: a schema reference is  *)
(* blank, without "schemas/", or the path that begins there; a topic is    *)
(* the classes of its segments; a flow id is a value of a class.  Only     *)
(* manifests that decode are considered, there is no other for the native  *)
(* validators.                                                             *)
(***************************************************************************)
EXTENDS Naturals, Sequences, SequencesExt

CONSTANTS
  Manifests,   \* packs: a manifest with the files of the pack
  Files,       \* file names
  EventFiles,  \* those that contain "schemas/events/"
  Paths,       \* those that begin with "schemas/"
  FlowIds,
  HandlerIds,  \* flow ids that start with "handle_"
  OnIds,       \* that start with "on_"
  EventsIds,   \* that contain "events"
  Absent       \* Option::None

SchemaRefs == Paths \cup {"blank", "elsewhere"}

\* "eventsType" says that provider_type starts with "events.".
ProviderDecls ==
  [eventsType : BOOLEAN, config : SchemaRefs, state : SchemaRefs \cup {Absent},
   ops : BOOLEAN]

\* "alnum": lower case and digits; "dashed": with - or _ among them
Segments == {"alnum", "dashed", "bad"}

\* The payload of an extension that is not the provider extension; of a pair
\* of keys (event.topic, events.topic) the texts, in the order they are tried.
Extensions ==
  [meta : Seq(FlowIds), top : Seq(FlowIds),
   topics : [1 .. 2 -> Seq(Segments) \cup {Absent}],
   types : [1 .. 2 -> {"reverseDns", "blank", "other", Absent}]]

IsManifest(m) ==
  /\ m.eventsId \in BOOLEAN
  /\ m.providers \in Seq(ProviderDecls)
  /\ m.extensions \in Seq(Extensions)
  /\ m.flows \in Seq([id : FlowIds, v1 : BOOLEAN])
  /\ m.files \subseteq Files

ASSUME ValidatorsAssumption ==
  /\ \A m \in Manifests : IsManifest(m)
  /\ Paths \subseteq Files /\ EventFiles \subseteq Files
  /\ HandlerIds \subseteq FlowIds /\ OnIds \subseteq FlowIds /\ EventsIds \subseteq FlowIds

VARIABLES
  manifest,
  native,   \* diagnostics of the native validators, in order
  wasm,     \* diagnostics of the component
  toRun     \* validators the host has still to run

hostVars == <<manifest, native, wasm, toRun>>

---------------------------------------------------------------------------
(* Reading the manifest; both crates have the same text here *)

\* One entry where a condition holds
If(cond, d) == IF cond THEN <<d>> ELSE <<>>

\* manifest_entry_flows: meta before top level, each id once
EntryFlows(m) ==
  LET all == FlattenSeq([i \in DOMAIN m.extensions |->
                           m.extensions[i].meta \o m.extensions[i].top])
      seen[i \in 0 .. Len(all)] ==
        IF i = 0 THEN <<>>
        ELSE seen[i - 1] \o If(~Contains(seen[i - 1], all[i]), all[i])
  IN seen[Len(all)]

\* manifest_annotation_value: first extension, first key
FirstText(texts) ==
  LET there == {i \in DOMAIN texts : texts[i] # Absent}
  IN IF there = {} THEN Absent ELSE texts[Min(there)]

Topic(m) ==
  FirstText(FlattenSeq([i \in DOMAIN m.extensions |-> m.extensions[i].topics]))

EventType(m) ==
  FirstText(FlattenSeq([i \in DOMAIN m.extensions |-> m.extensions[i].types]))

IdsOf(m) == {m.flows[i].id : i \in DOMAIN m.flows}

Diagnostic(severity, code, about) ==
  [severity |-> severity, code |-> code, about |-> about]

---------------------------------------------------------------------------
(* The native validators *)

RefsOf(provider) == {provider.config, provider.state} \ {Absent}

IsEventsPack(m) ==
  \/ m.eventsId
  \/ \E i \in DOMAIN m.providers :
       m.providers[i].eventsType \/ RefsOf(m.providers[i]) \cap EventFiles # {}

\* is_valid_event_topic
IsValidTopic(t) ==
  /\ Len(t) >= 2
  /\ t[1] = "alnum"
  /\ \A i \in 2 .. Len(t) : t[i] \in {"alnum", "dashed"}

\* EventsProviderDeclValidator::validate
ProviderDeclFindings(m) ==
  FlattenSeq([i \in DOMAIN m.providers |->
    If(m.providers[i].config = "blank", Diagnostic("error", "EVT_PROVIDER_SCHEMA_EMPTY", i))
    \o If(~m.providers[i].ops, Diagnostic("warn", "EVT_PROVIDER_NO_OPS", i))])

\* EventsTopicTypeFormatValidator::validate
TopicTypeFindings(m) ==
  If(Topic(m) # Absent /\ ~IsValidTopic(Topic(m)),
     Diagnostic("error", "EVT_INVALID_TOPIC", "topic"))
  \o If(EventType(m) \in {"blank", "other"},
        Diagnostic("warn", "EVT_SUSPECT_TYPE_FORMAT", "type"))

\* EventsHandlerFlowValidator::applies
HandlerFlowApplies(m) ==
  /\ IsEventsPack(m)
  /\ \/ \E i \in DOMAIN EntryFlows(m) :
          EntryFlows(m)[i] \in EventsIds \cup HandlerIds \cup OnIds
     \/ IdsOf(m) \cap (HandlerIds \cup OnIds) # {}

\* flow_index.get: of two flows with one id the later is kept
FlowIndex(m, id) == m.flows[CHOOSE i \in DOMAIN m.flows :
                              /\ m.flows[i].id = id
                              /\ \A j \in DOMAIN m.flows : m.flows[j].id = id => j <= i]

EntryFindings(m, id) ==
  If(id \notin IdsOf(m), Diagnostic("error", "EVT_ENTRY_FLOW_MISSING", id))
  \o If(id \in HandlerIds /\ (id \in IdsOf(m) => ~FlowIndex(m, id).v1),
        Diagnostic("error", "EVT_HANDLER_FLOW_MISSING", id))

\* Mutant: only handler flows that are entry flows are looked at.
HandlerFlowFindingsOfEntries(m) ==
  FlattenSeq([i \in DOMAIN EntryFlows(m) |-> EntryFindings(m, EntryFlows(m)[i])])

\* EventsHandlerFlowValidator::validate
HandlerFlowFindings(m) ==
  FlattenSeq([i \in DOMAIN EntryFlows(m) |-> EntryFindings(m, EntryFlows(m)[i])])
  \o FlattenSeq([i \in DOMAIN m.flows |->
       If(m.flows[i].id \in HandlerIds /\ ~m.flows[i].v1,
          Diagnostic("error", "EVT_HANDLER_FLOW_MISSING", m.flows[i].id))])

---------------------------------------------------------------------------
(* The WASM component *)

IsEventsPackByFiles(m) ==
  \/ m.eventsId
  \/ m.files \cap EventFiles # {}
  \/ \E i \in DOMAIN m.providers : m.providers[i].eventsType

\* Mutant: the first segment may hold dashes.
TopicPassesDashed(t) == Len(t) >= 2 /\ \A i \in DOMAIN t : t[i] \in {"alnum", "dashed"}

\* its own is_valid_event_topic
TopicPasses(t) ==
  /\ t # <<>> /\ t[1] = "alnum" /\ Tail(t) # <<>>
  /\ \A i \in DOMAIN Tail(t) : Tail(t)[i] # "bad"

\* validate_schema_refs: an exact match of the path among the files
SchemaFindings(m) ==
  LET missing(ref, i) ==
        If(ref \in Paths /\ ref \notin m.files, Diagnostic("error", "EVT_SCHEMA_MISSING", i))
  IN FlattenSeq([i \in DOMAIN m.providers |->
       missing(m.providers[i].config, i) \o missing(m.providers[i].state, i)])

\* validate_topics
TopicFindings(m) ==
  If(Topic(m) # Absent /\ ~TopicPasses(Topic(m)),
     Diagnostic("error", "EVT_INVALID_TOPIC", "topic"))

\* validate_entry_flows
EntryFlowFindings(m) ==
  FlattenSeq([i \in DOMAIN EntryFlows(m) |->
    LET id == EntryFlows(m)[i] IN
      If(id \notin IdsOf(m), Diagnostic("error", "EVT_ENTRY_FLOW_MISSING", id))
      \o If(id \in HandlerIds \ IdsOf(m),
            Diagnostic("warn", "EVT_HANDLER_FLOW_MISSING", id))])

---------------------------------------------------------------------------
NativeValidators == {"provider-decl", "topic-type-format", "handler-flow"}

HostInit ==
  /\ manifest \in Manifests
  /\ native = <<>>
  /\ wasm = <<>>
  /\ toRun = NativeValidators \cup {"component"}

\* A native validator that applies adds what it finds.
RunNative(validator, applies, findings) ==
  /\ validator \in toRun
  /\ native' = IF applies THEN native \o findings ELSE native
  /\ toRun' = toRun \ {validator}
  /\ UNCHANGED <<manifest, wasm>>

ProviderDecl ==
  RunNative("provider-decl", IsEventsPack(manifest), ProviderDeclFindings(manifest))

TopicTypeFormat ==
  RunNative("topic-type-format", IsEventsPack(manifest), TopicTypeFindings(manifest))

HandlerFlow ==
  RunNative("handler-flow", HandlerFlowApplies(manifest), HandlerFlowFindings(manifest))

\* validate of the component, which asks once more whether it applies
PackValidator ==
  /\ "component" \in toRun
  /\ wasm' = IF IsEventsPackByFiles(manifest)
             THEN SchemaFindings(manifest) \o TopicFindings(manifest)
                    \o EntryFlowFindings(manifest)
             ELSE <<>>
  /\ toRun' = toRun \ {"component"}
  /\ UNCHANGED <<manifest, native>>

HostNext == ProviderDecl \/ TopicTypeFormat \/ HandlerFlow \/ PackValidator

HostSpec == HostInit /\ [][HostNext]_hostVars

---------------------------------------------------------------------------
(* Properties *)

About(diagnostics, code) ==
  {diagnostics[i].about : i \in {j \in DOMAIN diagnostics : diagnostics[j].code = code}}

EventRefs(m) ==
  (UNION {RefsOf(m.providers[i]) : i \in DOMAIN m.providers}) \cap EventFiles

\* The two validators agree on what both report: on a pack both take for
\* theirs, a topic is invalid to both or to none, and where the native flow
\* validator runs the missing entry flows are the same and no handler flow
\* the component misses goes unnoticed.  They differ on whose pack it is
\* only over event schemas: the native one alone takes a pack that refers to
\* an event schema it does not contain, the component alone one that
\* contains event schemas no provider refers to.
VerdictsAgree ==
  toRun = {} =>
    /\ IsEventsPack(manifest) /\ IsEventsPackByFiles(manifest) =>
         About(native, "EVT_INVALID_TOPIC") = About(wasm, "EVT_INVALID_TOPIC")
    /\ HandlerFlowApplies(manifest) /\ IsEventsPackByFiles(manifest) =>
         /\ About(native, "EVT_ENTRY_FLOW_MISSING") = About(wasm, "EVT_ENTRY_FLOW_MISSING")
         /\ About(wasm, "EVT_HANDLER_FLOW_MISSING")
              \subseteq About(native, "EVT_HANDLER_FLOW_MISSING")
    /\ IsEventsPack(manifest) /\ ~IsEventsPackByFiles(manifest) =>
         EventRefs(manifest) \ manifest.files # {}
    /\ ~IsEventsPack(manifest) /\ IsEventsPackByFiles(manifest) =>
         manifest.files \cap EventFiles # {} /\ EventRefs(manifest) = {}

NoErrors ==
  \A ds \in {native, wasm} : \A i \in DOMAIN ds : ds[i].severity # "error"

HasEventsMark(m) ==
  m.eventsId \/ \E i \in DOMAIN m.providers : m.providers[i].eventsType

\* An events pack that neither validator has an error for is in order: its
\* topic reads as documented, its providers name a schema, every handler
\* flow there is or should be is there in version 1, and, for a pack marked
\* by its id or by a provider type, every entry flow and every schema file
\* is there.
AcceptedIsSound ==
  toRun = {} /\ NoErrors /\ IsEventsPack(manifest) =>
    /\ Topic(manifest) # Absent =>
         /\ Len(Topic(manifest)) > 1 /\ ~Contains(Topic(manifest), "bad")
         /\ Topic(manifest)[1] # "dashed"
    /\ \A i \in DOMAIN manifest.providers : manifest.providers[i].config # "blank"
    /\ \A i \in DOMAIN manifest.flows :
         manifest.flows[i].id \in HandlerIds => manifest.flows[i].v1
    /\ \A id \in ToSet(EntryFlows(manifest)) \cap HandlerIds : id \in IdsOf(manifest)
    /\ HasEventsMark(manifest) =>
         /\ ToSet(EntryFlows(manifest)) \subseteq IdsOf(manifest)
         /\ \A i \in DOMAIN manifest.providers :
              RefsOf(manifest.providers[i]) \cap Paths \subseteq manifest.files

=========================================================================
