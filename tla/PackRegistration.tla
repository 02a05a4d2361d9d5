------------------------ MODULE PackRegistration ------------------------
(***************************************************************************)
(* EventBusBuilder (src/src/bus.rs) with BridgeRegistry (src/src/          *)
(* bridge.rs): builder calls in any order, each pack directory loaded      *)
(* provider by provider with an await on a factory for every one, and      *)
(* build, which applies the overrides that are there by then.              *)
(*                                                                         *)
(* A builder is owned by its caller, so calls do not interleave; a call    *)
(* that fails consumes it.  ACL rules, store and metrics are set by calls  *)
(* that touch nothing else and are left out, as are the parts of a         *)
(* descriptor other than its name.                                         *)
(***************************************************************************)
EXTENDS Integers, Sequences

CONSTANTS
  Names,          \* names of providers and bridges
  Topics,         \* dead letter topics
  None,           \* Option::None
  DefaultPolicy,  \* RetryPolicy::default()
  U32,            \* 2^32, the modulus of "as u32"
  Packs,          \* pack directories
  OverrideMaps,   \* arguments of with_overrides
  OwnSettings,    \* dlq_topic and retry of providers registered by hand
  MaxCalls        \* bound on the builder calls

\* Of a retry policy the count and one of the other four fields, which are
\* all treated alike.
Policies == [maxRetries : 0 .. (U32 - 1), delay : Nat]

ProviderOverrides == [dlq : Topics \cup {None}, retry : Policies \cup {None}]

\* The annotations "events.providers.<name>.*" of one provider; a value of
\* the wrong type counts as absent.
Annotations ==
  [dlq : Topics \cup {None}, maxRetries : Nat \cup {None}, delay : Nat \cup {None}]

\* "loads" says that pack.yaml is read and valid.
IsPack(p) ==
  /\ p.loads \in BOOLEAN
  /\ p.providers \in Seq([name : Names, kind : {"bridge", "other"}])
  /\ p.annotations \in [Names -> Annotations]

ASSUME RegistrationAssumption ==
  /\ U32 \in Nat \ {0} /\ MaxCalls \in Nat
  /\ None \notin Topics /\ None \notin Nat /\ None \notin Policies
  /\ DefaultPolicy \in Policies
  /\ \A p \in Packs : IsPack(p)
  /\ \A m \in OverrideMaps :
       DOMAIN m \subseteq Names /\ \A n \in DOMAIN m : m[n] \in ProviderOverrides
  /\ OwnSettings \subseteq [dlq : Topics \cup {None}, retry : Policies]

Directions == {"toEvent", "toMessage"}

VARIABLES
  history,    \* the calls made, the last one perhaps still loading its pack
  loading,    \* the provider of that pack the loop is at, 0 if none
  half,       \* its message bridge is registered, its event bridge is not
  providers,  \* registrations, with the call each came from
  overrides,  \* a function on the names that have an entry
  bridges,    \* the call that registered each name last, 0 if none did
  outcome,    \* "building", "built" or "failed"
  bus         \* the registrations of the bus that was built

vars == <<history, loading, half, providers, overrides, bridges, outcome, bus>>

---------------------------------------------------------------------------
(* Overrides from annotations *)

AsU32(v) == v % U32

\* get_or_insert_with(RetryPolicy::default) for each field that is there
RetryFrom(a) ==
  IF a.maxRetries = None /\ a.delay = None THEN None
  ELSE [maxRetries |-> IF a.maxRetries = None THEN DefaultPolicy.maxRetries
                       ELSE AsU32(a.maxRetries),
        delay |-> IF a.delay = None THEN DefaultPolicy.delay ELSE a.delay]

\* provider_overrides_from_annotations, None without a usable key
OverridesFromAnnotations(p, name) ==
  LET ov == [dlq |-> p.annotations[name].dlq, retry |-> RetryFrom(p.annotations[name])]
  IN IF ov.dlq = None /\ ov.retry = None THEN None ELSE ov

\* Mutant: an entry that is there is overwritten.
EnteredInsert(p, name) ==
  IF OverridesFromAnnotations(p, name) = None THEN overrides
  ELSE [n \in DOMAIN overrides \cup {name} |->
          IF n = name THEN OverridesFromAnnotations(p, name) ELSE overrides[n]]

\* overrides.entry(name).or_insert(ov)
Entered(p, name) ==
  IF OverridesFromAnnotations(p, name) = None THEN overrides
  ELSE [n \in DOMAIN overrides \cup {name} |->
          IF n \in DOMAIN overrides THEN overrides[n]
          ELSE OverridesFromAnnotations(p, name)]

\* Settings with what an entry for the name overrides in them.
Overridden(settings, map, name) ==
  IF name \notin DOMAIN map THEN settings
  ELSE [dlq |-> IF map[name].dlq = None THEN settings.dlq ELSE map[name].dlq,
        retry |-> IF map[name].retry = None THEN settings.retry ELSE map[name].retry]

Unset == [dlq |-> None, retry |-> DefaultPolicy]

---------------------------------------------------------------------------
Init ==
  /\ history = <<>>
  /\ loading = 0
  /\ half = FALSE
  /\ providers = <<>>
  /\ overrides = [n \in {} |-> Unset]
  /\ bridges = [d \in Directions |-> [n \in Names |-> 0]]
  /\ outcome = "building"
  /\ bus = <<>>

Call(c) ==
  /\ outcome = "building" /\ loading = 0
  /\ Len(history) < MaxCalls
  /\ history' = Append(history, c)

\* The map is replaced as a whole.
WithOverrides(map) ==
  /\ Call([op |-> "overrides", map |-> map])
  /\ overrides' = map
  /\ UNCHANGED <<loading, half, providers, bridges, outcome, bus>>

Registration(name, settings, call, position) ==
  [name |-> name, settings |-> settings, call |-> call, position |-> position]

RegisterProvider(name, settings) ==
  /\ Call([op |-> "provider", name |-> name, settings |-> settings])
  /\ providers' =
       Append(providers, Registration(name, settings, Len(history) + 1, 1))
  /\ UNCHANGED <<loading, half, overrides, bridges, outcome, bus>>

\* register_message_to_event_bridge, register_event_to_message_bridge
RegisterBridge(direction, name) ==
  /\ Call([op |-> "bridge", direction |-> direction, name |-> name])
  /\ bridges' = [bridges EXCEPT ![direction][name] = Len(history) + 1]
  /\ UNCHANGED <<loading, half, providers, overrides, outcome, bus>>

\* register_from_pack_dir up to its loop; "factory" says whether a bridge
\* factory was passed
LoadPack(p, factory) ==
  /\ Call([op |-> "pack", pack |-> p, factory |-> factory])
  /\ outcome' = IF p.loads THEN "building" ELSE "failed"
  /\ loading' = IF p.loads /\ p.providers # <<>> THEN 1 ELSE 0
  /\ UNCHANGED <<half, providers, overrides, bridges, bus>>

Current == history[Len(history)]

Spec0 == Current.pack.providers[loading]

Loading(kind) == outcome = "building" /\ loading # 0 /\ Spec0.kind = kind

NextProvider ==
  /\ loading' = IF loading = Len(Current.pack.providers) THEN 0 ELSE loading + 1
  /\ half' = FALSE

\* A factory is asked: for every provider, and for bridges if there is one.
AtFactory == Loading("other") \/ (Loading("bridge") /\ Current.factory)

\* a bridge in a pack loaded without a bridge factory
SkipBridge ==
  /\ Loading("bridge")
  /\ ~Current.factory
  /\ overrides' = Entered(Current.pack, Spec0.name)
  /\ NextProvider
  /\ UNCHANGED <<history, providers, bridges, outcome, bus>>

\* build_message_to_event returns Ok
MessageBridgeBuilt ==
  /\ Loading("bridge")
  /\ Current.factory /\ ~half
  /\ overrides' = Entered(Current.pack, Spec0.name)
  /\ bridges' = [bridges EXCEPT !["toEvent"][Spec0.name] = Len(history)]
  /\ half' = TRUE
  /\ UNCHANGED <<history, loading, providers, outcome, bus>>

\* build_event_to_message returns Ok
EventBridgeBuilt ==
  /\ Loading("bridge")
  /\ half
  /\ bridges' = [bridges EXCEPT !["toMessage"][Spec0.name] = Len(history)]
  /\ NextProvider
  /\ UNCHANGED <<history, providers, overrides, outcome, bus>>

\* build_provider returns Ok: registered under the entry there is by now
ProviderBuilt ==
  /\ Loading("other")
  /\ overrides' = Entered(Current.pack, Spec0.name)
  /\ providers' =
       Append(providers,
              Registration(Spec0.name, Overridden(Unset, overrides', Spec0.name),
                           Len(history), loading))
  /\ NextProvider
  /\ UNCHANGED <<history, bridges, outcome, bus>>

\* Mutant: a factory error skips the provider.
FactoryFailsSkipping ==
  /\ AtFactory
  /\ NextProvider
  /\ UNCHANGED <<history, providers, overrides, bridges, outcome, bus>>

\* A factory fails (or the future is dropped at it), and the builder with
\* everything registered so far is gone.
FactoryFails ==
  /\ AtFactory
  /\ outcome' = "failed"
  /\ UNCHANGED <<history, loading, half, providers, overrides, bridges, bus>>

\* every registration under a name that has an entry, by hand or from a pack
Build ==
  /\ outcome = "building" /\ loading = 0
  /\ bus' = [i \in DOMAIN providers |->
               [providers[i] EXCEPT !.settings =
                  Overridden(@, overrides, providers[i].name)]]
  /\ outcome' = "built"
  /\ UNCHANGED <<history, loading, half, providers, overrides, bridges>>

Next ==
  \/ \E map \in OverrideMaps : WithOverrides(map)
  \/ \E n \in Names, s \in OwnSettings : RegisterProvider(n, s)
  \/ \E d \in Directions, n \in Names : RegisterBridge(d, n)
  \/ \E p \in Packs, factory \in BOOLEAN : LoadPack(p, factory)
  \/ SkipBridge \/ MessageBridgeBuilt \/ EventBridgeBuilt \/ ProviderBuilt
  \/ FactoryFails
  \/ Build

Spec == Init /\ [][Next]_vars

---------------------------------------------------------------------------
(* Properties *)

Latest(S) == CHOOSE i \in S : \A j \in S : j <= i

Earliest(S) == CHOOSE i \in S : \A j \in S : i <= j

\* Those of the first k calls that replaced the overrides, and the last of
\* them, 0 if there is none.
Replacements(calls, k) == {i \in 1 .. k : calls[i].op = "overrides"}

LastReplaced(calls, k) ==
  IF Replacements(calls, k) = {} THEN 0 ELSE Latest(Replacements(calls, k))

\* It has an entry for the name.
Given(calls, name, k) ==
  /\ LastReplaced(calls, k) # 0
  /\ name \in DOMAIN calls[LastReplaced(calls, k)].map

\* The call loads a pack that has a provider of that name and annotates it.
Annotates(call, name) ==
  /\ call.op = "pack"
  /\ \E s \in DOMAIN call.pack.providers : call.pack.providers[s].name = name
  /\ OverridesFromAnnotations(call.pack, name) # None

Annotating(calls, name, k) ==
  {i \in (LastReplaced(calls, k) + 1) .. k : Annotates(calls[i], name)}

NoOverride == [dlq |-> None, retry |-> None]

\* What counts for a name after the first k calls: what the last
\* with_overrides says, else the annotations of the first pack loaded since
\* then that has a provider of that name and annotates it.  Packs loaded
\* later are not asked.
InForce(calls, name, k) ==
  IF Given(calls, name, k) THEN calls[LastReplaced(calls, k)].map[name]
  ELSE IF Annotating(calls, name, k) # {}
       THEN OverridesFromAnnotations(
              calls[Earliest(Annotating(calls, name, k))].pack, name)
       ELSE NoOverride

Merged(settings, ov) ==
  [dlq |-> IF ov.dlq = None THEN settings.dlq ELSE ov.dlq,
   retry |-> IF ov.retry = None THEN settings.retry ELSE ov.retry]

\* The settings a registration starts from: its own, or what was in force
\* when its pack was loaded.
StartsFrom(r) ==
  IF history[r.call].op = "provider" THEN history[r.call].settings
  ELSE Merged(Unset, InForce(history, r.name, r.call))

\* In the bus that is built, every provider has the dead letter topic and
\* the retry policy in force at the end, and where that is silent those it
\* started from, whatever order the builder was called in.
OverridePrecedence ==
  outcome = "built" =>
    \A i \in DOMAIN bus :
      bus[i].settings =
        Merged(StartsFrom(bus[i]), InForce(history, bus[i].name, Len(history)))

Precedes(r, s) == r.call < s.call \/ (r.call = s.call /\ r.position < s.position)

\* Provider s of the pack of call k is there: registered, or a bridge in both
\* directions (from it or from a later call) if there was a factory.
EntersAs(regs, k, s) ==
  LET spec == history[k].pack.providers[s] IN
    IF spec.kind = "other"
    THEN \E i \in DOMAIN regs : regs[i].call = k /\ regs[i].position = s
    ELSE history[k].factory => \A d \in Directions : bridges[d][spec.name] >= k

\* A pack enters a bus as a whole or not at all: all its providers are
\* there, and those registered are in order among all others.
PackEntersWhole ==
  outcome = "built" =>
    /\ \A i, j \in DOMAIN bus : i < j => Precedes(bus[i], bus[j])
    /\ \A k \in DOMAIN history : history[k].op = "pack" =>
         \A s \in DOMAIN history[k].pack.providers : EntersAs(bus, k, s)

=========================================================================
