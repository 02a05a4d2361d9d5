-------------------------- MODULE InstallRouting --------------------------
(***************************************************************************)
(* build_sink_router, SinkRouter::emit and start_sources (src/crates/      *)
(* greentic-events-runtime/src/install.rs): a pass over the providers of   *)
(* one kind that lists the installs of each, resolves the references of    *)
(* each install, and builds its sink or starts its source.  Every await    *)
(* may fail; a failure becomes a diagnostic and the pass goes on.  The     *)
(* sinks go to a router that events are then emitted through.              *)
(*                                                                         *)
(* What the references resolve to is left out; which of them fails, and    *)
(* what its text says, is kept, as the code of a diagnostic is guessed     *)
(* from the text.                                                          *)
(***************************************************************************)
EXTENDS Naturals, Sequences, FiniteSets, SequencesExt

CONSTANTS
  Keys,         \* [provider, install] of all installs that may be provisioned
  Specs,        \* the providers passed in, each with its kind
  ConfigRefs,   \* of the record of an install, in the order they are read
  SecretRefs,
  SecretTexts,  \* references whose text contains "secret"
  ConfigTexts,  \* references whose text contains "config"
  None

Kinds == {"sink", "source", "other"}

ASSUME RoutingAssumption ==
  /\ \A k \in Keys :
       k = [provider |-> k.provider, install |-> k.install] /\ k.install # None
  /\ \A i \in DOMAIN Specs : Specs[i].kind \in Kinds
  /\ DOMAIN ConfigRefs = Keys /\ DOMAIN SecretRefs = Keys

VARIABLES
  installed,  \* the install store, which is provisioned all the while
  mode,       \* "sink" in build_sink_router, "source" in start_sources
  pc,         \* "list", "next", "read", "build" or "done"
  at,         \* the provider the pass is at
  todo,       \* listed installs of that provider not begun
  current,    \* the install the pass is at
  resolved,   \* how many of its references have been read
  router,     \* SinkRouter.providers: instances by the key of the map
  diags,      \* diagnostics in order
  lists,      \* history: calls of list_installs that returned records
  listed,     \* history: how often an install was in them
  started,    \* history: how often it was built or started
  delivered   \* history: [asked, by] of events emitted, by None if refused

vars == <<installed, mode, pc, at, todo, current, resolved, router, diags,
          lists, listed, started, delivered>>

pass == <<mode, lists, listed, delivered>>

---------------------------------------------------------------------------
(* What the code reads *)

OfKind(kind) == SelectSeq(Specs, LAMBDA spec : spec.kind = kind)

Selected == OfKind(mode)

\* Mutant: installs are told apart by their id alone.
RouterKeyInstall(k) == k.install

\* ProviderInstallKey
RouterKey(k) == k

Refs(k) ==
  [i \in 1 .. Len(ConfigRefs[k]) |-> [what |-> "config", ref |-> ConfigRefs[k][i]]]
  \o [i \in 1 .. Len(SecretRefs[k]) |-> [what |-> "secret", ref |-> SecretRefs[k][i]]]

\* the message "missing <what> ref <ref>" contains the word
Says(message, word) ==
  \/ message.what = word
  \/ word = "secret" /\ message.ref \in SecretTexts
  \/ word = "config" /\ message.ref \in ConfigTexts

\* Mutant: the words are looked for in the other order.
CodeOfConfigFirst(message) ==
  IF Says(message, "config") THEN "MissingConfig"
  ELSE IF Says(message, "secret") THEN "MissingSecret" ELSE "MalformedInstall"

\* diagnostic_code_for_resolve_error
CodeOf(message) ==
  IF Says(message, "secret") THEN "MissingSecret"
  ELSE IF Says(message, "config") THEN "MissingConfig" ELSE "MalformedInstall"

---------------------------------------------------------------------------
Init ==
  /\ installed \in SUBSET Keys
  /\ mode \in {"sink", "source"}
  /\ pc = IF Selected = <<>> THEN "done" ELSE "list"
  /\ at = 1
  /\ todo = {} /\ current = None /\ resolved = 0
  /\ router = [k \in {} |-> None]
  /\ diags = <<>>
  /\ lists = 0
  /\ listed = [k \in Keys |-> 0]
  /\ started = [k \in Keys |-> 0]
  /\ delivered = {}

Diagnose(provider, install, code, message) ==
  diags' = Append(diags, [provider |-> provider, install |-> install,
                          code |-> code, message |-> message])

NextSpec ==
  /\ at' = at + 1
  /\ pc' = IF at = Len(Selected) THEN "done" ELSE "list"

\* list_installs returns the records of the provider, in any order
List ==
  /\ pc = "list"
  /\ todo' = {k \in installed : k.provider = Selected[at].name}
  /\ lists' = lists + 1
  /\ listed' = [k \in Keys |-> IF k \in todo' THEN listed[k] + 1 ELSE listed[k]]
  /\ IF todo' = {} THEN NextSpec ELSE pc' = "next" /\ UNCHANGED at
  /\ UNCHANGED <<installed, mode, delivered, current, resolved, router, diags, started>>

\* list_installs fails
ListFails ==
  /\ pc = "list"
  /\ Diagnose(Selected[at].name, None, "MalformedInstall", None)
  /\ NextSpec
  /\ UNCHANGED <<installed, pass, todo, current, resolved, router, started>>

Begin(k) ==
  /\ pc = "next" /\ k \in todo
  /\ todo' = todo \ {k}
  /\ current' = k
  /\ resolved' = 0
  /\ pc' = IF Refs(k) = <<>> THEN "build" ELSE "read"
  /\ UNCHANGED <<installed, pass, at, router, diags, started>>

\* Mutant: after the last install of a provider another one is waited for.
ContinueWaiting == pc' = "next" /\ UNCHANGED at

\* The install is dealt with; the loops go on to the next one.
Continue == IF todo = {} THEN NextSpec ELSE pc' = "next" /\ UNCHANGED at

\* read returns the value of the next reference
Read ==
  /\ pc = "read"
  /\ resolved' = resolved + 1
  /\ pc' = IF resolved' = Len(Refs(current)) THEN "build" ELSE "read"
  /\ UNCHANGED <<installed, pass, at, todo, current, router, diags, started>>

\* Mutant: an install that cannot be resolved ends its provider.
ReadFailsBreaking ==
  /\ pc = "read"
  /\ LET message == Refs(current)[resolved + 1] IN
       Diagnose(current.provider, current.install, CodeOf(message), message)
  /\ todo' = {}
  /\ NextSpec
  /\ UNCHANGED <<installed, pass, current, resolved, router, started>>

\* read fails, for whatever reason
ReadFails ==
  /\ pc = "read"
  /\ LET message == Refs(current)[resolved + 1] IN
       Diagnose(current.provider, current.install, CodeOf(message), message)
  /\ Continue
  /\ UNCHANGED <<installed, pass, todo, current, resolved, router, started>>

\* build_provider or init_source returns Ok
Build ==
  /\ pc = "build"
  /\ started' = [started EXCEPT ![current] = @ + 1]
  /\ router' = IF mode = "source" THEN router
               ELSE [k \in DOMAIN router \cup {RouterKey(current)} |->
                       IF k = RouterKey(current) THEN current ELSE router[k]]
  /\ Continue
  /\ UNCHANGED <<installed, pass, todo, current, resolved, diags>>

\* build_provider or init_source fails
BuildFails ==
  /\ pc = "build"
  /\ Diagnose(current.provider, current.install, "ProviderInitFailed", None)
  /\ Continue
  /\ UNCHANGED <<installed, pass, todo, current, resolved, router, started>>

\* SinkRouter::emit: the instance found by the key publishes the event, or
\* nothing is found
Emit(k) ==
  /\ pc = "done" /\ mode = "sink"
  /\ delivered' = delivered \cup
       {[asked |-> k,
         by |-> IF RouterKey(k) \in DOMAIN router THEN router[RouterKey(k)] ELSE None]}
  /\ UNCHANGED <<installed, mode, lists, listed, pc, at, todo, current, resolved, router, diags, started>>

\* insert: provisioning, at any time
Provision(k) ==
  /\ k \notin installed
  /\ installed' = installed \cup {k}
  /\ UNCHANGED <<pass, pc, at, todo, current, resolved, router, diags, started>>

Progress ==
  \/ List \/ ListFails
  \/ \E k \in Keys : Begin(k)
  \/ Read \/ ReadFails \/ Build \/ BuildFails

Next == Progress \/ \E k \in Keys : Emit(k) \/ Provision(k)

Spec == Init /\ [][Next]_vars

\* The pass is awaited, and stores and factories answer.
FairSpec == Spec /\ WF_vars(Progress)

---------------------------------------------------------------------------
(* Properties *)

\* The diagnostics that carry the install itself.
DiagnosedInstall(k) ==
  {i \in DOMAIN diags : diags[i].provider = k.provider /\ diags[i].install = k.install}

\* When the pass is over, each time an install was listed it was started or
\* has one diagnostic, whatever happened to the others; each provider was
\* listed or has one of its own; and a sink is in the router
\* exactly if it was built.
EveryInstallAnswered ==
  pc = "done" =>
    /\ \A k \in Keys : listed[k] = started[k] + Cardinality(DiagnosedInstall(k))
    /\ mode = "sink" =>
         \A k \in Keys : started[k] > 0 <=> \E r \in DOMAIN router : router[r] = k
    /\ Len(Selected) = lists + Cardinality({i \in DOMAIN diags : diags[i].install = None})

\* A secret that cannot be read is diagnosed as such, a configuration value
\* as well unless its reference speaks of a secret.
DiagnosisNamesTheMissing ==
  \A i \in DOMAIN diags : diags[i].message # None =>
    /\ diags[i].message.what = "secret" => diags[i].code = "MissingSecret"
    /\ diags[i].message.what = "config" /\ diags[i].message.ref \notin SecretTexts
         => diags[i].code = "MissingConfig"

\* An event goes to the sink built for its provider and install, never to
\* one of another provider with the same install id, and is refused exactly
\* if there is none.
EmitReachesItsInstall ==
  \A d \in delivered : d.by = IF started[d.asked] > 0 THEN d.asked ELSE None

\* The pass comes to its end.
RoutingEnds == <>(pc = "done")

===========================================================================
