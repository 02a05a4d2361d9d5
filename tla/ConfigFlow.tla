--------------------------- MODULE ConfigFlow ---------------------------
(***************************************************************************)
(* run_config_flow_from_pack (src/src/e2e.rs): the harness walks a flow    *)
(* of "questions" and "template" nodes from its entry, collects answers,   *)
(* and returns the document the first template renders.                    *)
(*                                                                         *)
(* A walk is synchronous and touches no shared state, so it is a function. *)
(* Of a rendered document only what its two readers look at is kept: the   *)
(* needs a requirements reader finds and the operations a plan reader      *)
(* finds.  Both readers default every absent key.                          *)
(***************************************************************************)
EXTENDS Integers, FiniteSets

CONSTANTS
  NodeIds,   \* ids of nodes, in a flow or only referred to
  InNode,    \* the id "in"
  NoStart,   \* stands for a flow without "start"
  Fields     \* ids of the fields a questions node asks for

Needs == {"subscriptions", "webhooks"}

\* A JSON object as RequirementsFixture (needs, a blank key among its keys)
\* and as ProvisionPlan (kinds of operations) read it.
Objects == [needs : SUBSET Needs, blank : BOOLEAN, ops : SUBSET Needs]

EmptyObject == [needs |-> {}, blank |-> FALSE, ops |-> {}]

\* "next" is the successor of Routing::Next; End, Reply, Branch and Custom
\* have none.  A template renders an object, another value, or nothing
\* usable; a questions node without a proper "fields" array is malformed.
Nodes ==
  [component : {"questions"}, required : SUBSET Fields, optional : SUBSET Fields,
   next : NodeIds \cup {"end", "branch"}]
  \cup [component : {"template"}, renders : {"object", "scalar", "invalid"},
        object : Objects]
  \cup [component : {"malformed", "unsupported"}]

\* "first" is the first key of doc.nodes, "in" when there is none.
IsFlow(flow) ==
  /\ flow.loads \in BOOLEAN
  /\ flow.start \in NodeIds \cup {NoStart}
  /\ DOMAIN flow.nodes \subseteq NodeIds
  /\ \A n \in DOMAIN flow.nodes : flow.nodes[n] \in Nodes
  /\ IF DOMAIN flow.nodes = {} THEN flow.first = InNode
     ELSE flow.first \in DOMAIN flow.nodes

ASSUME FlowAssumption ==
  /\ IsFiniteSet(NodeIds)
  /\ InNode \in NodeIds
  /\ NoStart \notin NodeIds
  /\ "end" \notin NodeIds /\ "branch" \notin NodeIds

---------------------------------------------------------------------------
(* The walk *)

Outcome(kind, object) == [kind |-> kind, object |-> object]

Failed(kind) == Outcome(kind, EmptyObject)

\* resolve_entry
Entry(flow) ==
  IF flow.start # NoStart THEN flow.start
  ELSE IF InNode \in DOMAIN flow.nodes THEN InNode ELSE flow.first

\* apply_questions, once every field without a default has an answer
ApplyQuestions(node, answers) == answers \cup node.required \cup node.optional

\* render_template, extract_config_output: node_id must be there, and node
RenderTemplate(node) ==
  CASE node.renders = "object" -> Outcome("object", node.object)
    [] node.renders = "scalar" -> Failed("scalar")
    [] node.renders = "invalid" -> Failed("error")

\* Mutant: the budget is too small for a flow that visits every node.
TraversalLimitTight(flow) == Cardinality(DOMAIN flow.nodes) - 1

\* the bound of the while loop
TraversalLimit(flow) == Cardinality(DOMAIN flow.nodes) + 4

\* What the loop keeps, and what the function returns: "object" or "scalar"
\* is Ok(Some(..)), "error" and "limit" are errors.  Until a turn returns,
\* the limit is still ahead.
Walkers ==
  [current : NodeIds, answers : SUBSET Fields,
   out : [kind : {"object", "scalar", "error", "limit"}, object : Objects]]

Walker(current, answers, out) ==
  [current |-> current, answers |-> answers, out |-> out]

Walking(w) == w.out.kind = "limit"

\* the current node is there and is of that kind
IsAt(flow, w, component) ==
  /\ w.current \in DOMAIN flow.nodes
  /\ flow.nodes[w.current].component = component

\* every question has an answer, and there is a next node
GoesOn(flow, w) ==
  /\ IsAt(flow, w, "questions")
  /\ flow.nodes[w.current].required \subseteq w.answers
  /\ flow.nodes[w.current].next \in NodeIds

\* one turn of the while loop; there is none once it has returned
Turn(flow) ==
  [w \in Walkers |->
     LET node == flow.nodes[w.current] IN
       CASE ~Walking(w) -> w
         [] Walking(w) /\ GoesOn(flow, w) ->
              Walker(node.next, ApplyQuestions(node, w.answers), w.out)
         [] Walking(w) /\ IsAt(flow, w, "template") ->
              Walker(w.current, w.answers, RenderTemplate(node))
         [] OTHER -> Walker(w.current, w.answers, Failed("error"))]

\* the walk after so many visited nodes
Walk(flow, given) ==
  LET walk[visited \in 0 .. TraversalLimit(flow)] ==
        IF visited = 0 THEN Walker(Entry(flow), given, Failed("limit"))
        ELSE Turn(flow)[walk[visited - 1]]
  IN walk

RunConfigFlow(flow, given) ==
  IF flow.loads THEN Walk(flow, given)[TraversalLimit(flow)].out
  ELSE Failed("error")

---------------------------------------------------------------------------
(* Reference: what a flow yields, without a bound on the walk *)

\* Everything known before the i-th node of a path is asked.
KnownBefore(flow, path, given, i) ==
  given \cup UNION {flow.nodes[path[j]].required
                      \cup flow.nodes[path[j]].optional : j \in 1 .. (i - 1)}

\* A path from the entry through different questions nodes, each answered,
\* to its last node.
IsTrail(flow, path, given) ==
  /\ path[1] = Entry(flow)
  /\ \A i, j \in DOMAIN path : path[i] = path[j] => i = j
  /\ \A i \in DOMAIN path \ {Cardinality(DOMAIN path)} :
       /\ flow.nodes[path[i]].component = "questions"
       /\ flow.nodes[path[i]].required \subseteq KnownBefore(flow, path, given, i)
       /\ flow.nodes[path[i]].next = path[i + 1]

Trails(flow, given) ==
  {path \in UNION {[1 .. k -> DOMAIN flow.nodes] :
                     k \in 1 .. Cardinality(DOMAIN flow.nodes)} :
     IsTrail(flow, path, given)}

LastOf(path) == path[Cardinality(DOMAIN path)]

\* What the templates at the end of trails render.
Renderings(flow, given) ==
  {node \in {flow.nodes[LastOf(path)] : path \in Trails(flow, given)} :
     node.component = "template"}

\* The trail runs into itself with all questions answered.
Cycles(flow, given) ==
  \E path \in Trails(flow, given) :
    LET node == flow.nodes[LastOf(path)] IN
      /\ node.component = "questions"
      /\ node.required
           \subseteq KnownBefore(flow, path, given, Cardinality(DOMAIN path))
      /\ \E i \in DOMAIN path : node.next = path[i]

\* The walk gives what the flow yields: the bound on visited nodes cuts off
\* exactly the flows that run in a cycle, and never one that would still
\* reach its template.
WalkIsExact(flow, given) ==
  LET out == RunConfigFlow(flow, given) IN
    /\ \A r \in {"object", "scalar"} :
         (out.kind = r) = \E node \in Renderings(flow, given) :
                            flow.loads /\ node.renders = r
    /\ out.kind = "object" =>
         \E node \in Renderings(flow, given) : node.object = out.object
    /\ (out.kind = "limit") = (flow.loads /\ Cycles(flow, given))

=========================================================================
