------------------------ MODULE MCPackValidators ------------------------
(* An instance of PackValidators for TLC. *)
EXTENDS PackValidators

CONSTANTS event, other, asset, handle, onUpdate, events, main

MCFiles == {event, other, asset}
MCEventFiles == {event, asset}
MCPaths == {event, other}
MCFlowIds == {handle, onUpdate, events, main}
MCHandlerIds == {handle}
MCOnIds == {onUpdate}
MCEventsIds == {events}

NoTexts == <<Absent, Absent>>

Extension(meta, top) == [meta |-> meta, top |-> top, topics |-> NoTexts, types |-> NoTexts]

Base ==
  [eventsId |-> FALSE, providers |-> <<>>, extensions |-> <<>>, flows |-> <<>>, files |-> {}]

\* Whose pack it is and what schemas it has, for all files.
SchemaPacks ==
  {[Base EXCEPT !.eventsId = e, !.files = fs,
                !.providers = <<[eventsType |-> t, config |-> c, state |-> s, ops |-> t]>>] :
     e \in BOOLEAN, fs \in SUBSET MCFiles, t \in BOOLEAN,
     c \in SchemaRefs, s \in SchemaRefs \cup {Absent}}

Topics == {Absent} \cup UNION {[1 .. k -> Segments] : k \in 1 .. 3}

\* A topic under either key and in either of two extensions.
TextPacks ==
  {[Base EXCEPT !.eventsId = TRUE,
                !.extensions = <<[Extension(<<>>, <<>>) EXCEPT !.topics = <<t, u>>,
                                                               !.types = <<x, Absent>>],
                                 [Extension(<<>>, <<>>) EXCEPT !.topics = <<v, Absent>>]>>] :
     t \in Topics, u \in {Absent, <<"bad">>}, v \in {Absent, <<"alnum">>, <<"alnum", "alnum">>},
     x \in {"reverseDns", "blank", "other", Absent}}

IdLists == {<<>>} \cup {<<i>> : i \in MCFlowIds} \cup {<<i, j>> : i, j \in MCFlowIds}

FlowEntries == [id : MCFlowIds, v1 : BOOLEAN]

\* Entry flows at either place, some twice, against flows with and without
\* them, in packs with and without a file that makes them the component's.
FlowPacks ==
  {[Base EXCEPT !.eventsId = e, !.files = fs, !.flows = fl,
                !.providers = <<[eventsType |-> FALSE, config |-> event, state |-> Absent,
                                 ops |-> TRUE]>>,
                !.extensions = <<Extension(meta, top)>>] :
     e \in BOOLEAN, fs \in {{}, {asset}, {event}},
     fl \in {<<>>} \cup {<<x>> : x \in FlowEntries} \cup {<<x, y>> : x, y \in FlowEntries},
     meta \in IdLists, top \in {<<>>, <<main>>, <<handle>>}}

MCManifests == SchemaPacks \cup TextPacks \cup FlowPacks

=========================================================================
