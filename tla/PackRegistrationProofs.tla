--------------------- MODULE PackRegistrationProofs ---------------------
(***************************************************************************)
(* Theorems about what is done with a pack: PackRegistration, for all      *)
(* packs, overrides and settings, and any number of builder calls; and     *)
(* PackValidators, for all manifests, with any number of providers,        *)
(* extensions and flows.                                                   *)
(***************************************************************************)
EXTENDS PackRegistration, PackValidators, SequenceTheorems, WellFoundedInduction, TLAPS

---------------------------------------------------------------------------
(* Types *)

Settings == [dlq : Topics \cup {None}, retry : Policies]

Calls ==
  [op : {"overrides"}, map : OverrideMaps]
  \cup [op : {"provider"}, name : Names, settings : OwnSettings]
  \cup [op : {"bridge"}, direction : Directions, name : Names]
  \cup [op : {"pack"}, pack : Packs, factory : BOOLEAN]

Registrations == [name : Names, settings : Settings, call : Nat, position : Nat]

OverridesTyped(map) ==
  /\ DOMAIN map \subseteq Names
  /\ \A n \in DOMAIN map : map[n] \in ProviderOverrides

TypeOK ==
  /\ history \in Seq(Calls)
  /\ loading \in Nat
  /\ half \in BOOLEAN
  /\ providers \in Seq(Registrations)
  /\ OverridesTyped(overrides)
  /\ bridges \in [Directions -> [Names -> Nat]]
  /\ outcome \in {"building", "built", "failed"}
  /\ bus \in Seq(Registrations)

\* Where the loop over the providers of a pack is.
Position ==
  /\ loading # 0 =>
       /\ history # <<>> /\ Current.op = "pack" /\ Current.pack \in Packs
       /\ loading \in DOMAIN Current.pack.providers
       /\ outcome # "built"
  /\ half => loading # 0 /\ Spec0.kind = "bridge" /\ Current.factory

\* The registrations are in order, those of a pack being loaded up to where
\* the loop is.
InOrder ==
  /\ \A i \in DOMAIN providers :
       /\ providers[i].call \in 1 .. Len(history)
       /\ loading # 0 /\ providers[i].call = Len(history)
            => providers[i].position < loading
  /\ \A i, j \in DOMAIN providers : i < j => Precedes(providers[i], providers[j])

\* The loop is past provider s of the pack of call k.
Past(k, s) == k < Len(history) \/ loading = 0 \/ s < loading

\* What the loop is past is there.
WholeSoFar ==
  outcome # "failed" =>
    \A k \in DOMAIN history : history[k].op = "pack" =>
      \A s \in DOMAIN history[k].pack.providers :
        Past(k, s) => EntersAs(providers, k, s)

HalfBridge == half => bridges["toEvent"][Spec0.name] = Len(history)

\* A registration keeps its place when the bus is built.
BusCopies ==
  outcome = "built" =>
    /\ DOMAIN bus = DOMAIN providers
    /\ \A i \in DOMAIN bus : /\ bus[i].name = providers[i].name
                             /\ bus[i].call = providers[i].call
                             /\ bus[i].position = providers[i].position

\* PackEntersWhole speaks of the bus alone; it needs what is true of a pack
\* half loaded.
WholeInv == TypeOK /\ Position /\ InOrder /\ WholeSoFar /\ HalfBridge /\ BusCopies

LEMMA AppendAt ==
  ASSUME NEW S, NEW s \in Seq(S), NEW e \in S
  PROVE  /\ Append(s, e) \in Seq(S)
         /\ Len(Append(s, e)) = Len(s) + 1
         /\ Len(s) \in Nat
         /\ DOMAIN s = 1 .. Len(s)
         /\ DOMAIN Append(s, e) = 1 .. (Len(s) + 1)
         /\ \A i \in 1 .. Len(s) : Append(s, e)[i] = s[i]
         /\ Append(s, e)[Len(s) + 1] = e
  OBVIOUS

---------------------------------------------------------------------------
(* The overrides are typed *)

\* What the annotations of a pack say about one of its providers.
LEMMA AnnotationsTyped ==
  ASSUME NEW p \in Packs, NEW n \in Names
  PROVE  OverridesFromAnnotations(p, n) \in ProviderOverrides \cup {None}
<1> DEFINE a == p.annotations[n]
<1>1. a \in Annotations
  BY RegistrationAssumption DEF IsPack
<1>2. RetryFrom(a) \in Policies \cup {None}
  <2>1. a.maxRetries # None => AsU32(a.maxRetries) \in 0 .. (U32 - 1)
    BY <1>1, RegistrationAssumption DEF Annotations, AsU32
  <2>2. a.delay # None => a.delay \in Nat
    BY <1>1 DEF Annotations
  <2>3. DefaultPolicy.maxRetries \in 0 .. (U32 - 1) /\ DefaultPolicy.delay \in Nat
    BY RegistrationAssumption DEF Policies
  <2> QED
    BY <2>1, <2>2, <2>3 DEF RetryFrom, Policies
<1>3. a.dlq \in Topics \cup {None}
  BY <1>1 DEF Annotations
<1> QED
  BY <1>2, <1>3 DEF OverridesFromAnnotations, ProviderOverrides

\* The map after a provider's annotations are entered.
LEMMA EnteredTyped ==
  ASSUME OverridesTyped(overrides), NEW p \in Packs, NEW n \in Names
  PROVE  OverridesTyped(Entered(p, n))
<1>1. CASE OverridesFromAnnotations(p, n) = None
  BY <1>1 DEF Entered
<1>2. CASE OverridesFromAnnotations(p, n) # None
  <2>1. OverridesFromAnnotations(p, n) \in ProviderOverrides
    BY <1>2, AnnotationsTyped
  <2> QED
    BY <1>2, <2>1 DEF Entered, OverridesTyped
<1> QED
  BY <1>1, <1>2

LEMMA OverriddenTyped ==
  ASSUME NEW settings \in Settings, NEW map, OverridesTyped(map), NEW n \in Names
  PROVE  Overridden(settings, map, n) \in Settings
<1>1. CASE n \notin DOMAIN map
  BY <1>1 DEF Overridden
<1>2. CASE n \in DOMAIN map
  <2>1. map[n] \in ProviderOverrides
    BY <1>2 DEF OverridesTyped
  <2> QED
    BY <1>2, <2>1 DEF Overridden, Settings, ProviderOverrides
<1> QED
  BY <1>1, <1>2

LEMMA UnsetTyped == Unset \in Settings
  BY RegistrationAssumption DEF Unset, Settings

\* The provider the loop is at.
LEMMA SpecTyped ==
  ASSUME TypeOK, Position, loading # 0
  PROVE  /\ Current \in Calls /\ Current.op = "pack" /\ Current.pack \in Packs
         /\ Spec0.name \in Names /\ Spec0.kind \in {"bridge", "other"}
         /\ loading \in 1 .. Len(Current.pack.providers)
         /\ Len(Current.pack.providers) \in Nat
         /\ Len(history) \in Nat \ {0}
<1>1. Len(history) \in Nat \ {0} /\ Len(history) \in DOMAIN history
  BY EmptySeq, LenProperties DEF TypeOK, Position
<1>2. Current \in Calls
  BY <1>1, ElementOfSeq, LenProperties DEF TypeOK, Current
<1>3. Current.pack \in Packs /\ Current.op = "pack"
  BY DEF Position
<1>4. Current.pack.providers \in Seq([name : Names, kind : {"bridge", "other"}])
  <2>1. IsPack(Current.pack)
    BY <1>3, RegistrationAssumption
  <2> QED
    BY <2>1 DEF IsPack
<1>5. Spec0 \in [name : Names, kind : {"bridge", "other"}]
  <2> DEFINE ps == Current.pack.providers
  <2>1. loading \in 1 .. Len(ps)
    BY <1>4, LenProperties DEF Position
  <2> HIDE DEF ps
  <2>2. ps[loading] \in [name : Names, kind : {"bridge", "other"}]
    BY <1>4, <2>1, ElementOfSeq DEF ps
  <2> QED
    BY <2>2 DEF Spec0, ps
<1>6. DOMAIN Current.pack.providers = 1 .. Len(Current.pack.providers)
      /\ Len(Current.pack.providers) \in Nat
  BY <1>4, LenProperties
<1> QED
  BY <1>1, <1>2, <1>3, <1>5, <1>6 DEF Position

---------------------------------------------------------------------------
(* Type correctness *)

\* A call is appended to the history.
LEMMA CallTyped ==
  ASSUME TypeOK, NEW c \in Calls, Call(c)
  PROVE  /\ history' \in Seq(Calls) /\ Len(history') = Len(history) + 1
         /\ Len(history) \in Nat /\ DOMAIN history = 1 .. Len(history)
         /\ DOMAIN history' = 1 .. (Len(history) + 1)
         /\ \A i \in 1 .. Len(history) : history'[i] = history[i]
         /\ history'[Len(history) + 1] = c
         /\ outcome = "building" /\ loading = 0
  BY AppendAt DEF TypeOK, Call

LEMMA StepTypeOK == TypeOK /\ Position /\ [Next]_vars => TypeOK'
<1> SUFFICES ASSUME TypeOK, Position, [Next]_vars
             PROVE  TypeOK'
  OBVIOUS
<1>1. ASSUME NEW map \in OverrideMaps, WithOverrides(map)
      PROVE  TypeOK'
  <2>1. [op |-> "overrides", map |-> map] \in Calls
    BY DEF Calls
  <2>2. history' \in Seq(Calls)
    BY <1>1, <2>1, CallTyped DEF WithOverrides
  <2>3. OverridesTyped(overrides')
    BY <1>1, RegistrationAssumption DEF WithOverrides, OverridesTyped
  <2> QED
    BY <1>1, <2>2, <2>3 DEF WithOverrides, TypeOK
<1>2. ASSUME NEW n \in Names, NEW s \in OwnSettings, RegisterProvider(n, s)
      PROVE  TypeOK'
  <2>1. [op |-> "provider", name |-> n, settings |-> s] \in Calls
    BY DEF Calls
  <2>2. history' \in Seq(Calls) /\ Len(history) \in Nat
    BY <1>2, <2>1, CallTyped DEF RegisterProvider
  <2>3. Registration(n, s, Len(history) + 1, 1) \in Registrations
    BY <2>2, RegistrationAssumption DEF Registration, Registrations, Settings
  <2>4. providers' \in Seq(Registrations)
    BY <1>2, <2>3, AppendAt DEF RegisterProvider, TypeOK
  <2> QED
    BY <1>2, <2>2, <2>4 DEF RegisterProvider, TypeOK
<1>3. ASSUME NEW d \in Directions, NEW n \in Names, RegisterBridge(d, n)
      PROVE  TypeOK'
  <2>1. [op |-> "bridge", direction |-> d, name |-> n] \in Calls
    BY DEF Calls
  <2>2. history' \in Seq(Calls) /\ Len(history) \in Nat
    BY <1>3, <2>1, CallTyped DEF RegisterBridge
  <2>3. bridges' \in [Directions -> [Names -> Nat]]
    BY <1>3, <2>2 DEF RegisterBridge, TypeOK
  <2> QED
    BY <1>3, <2>2, <2>3 DEF RegisterBridge, TypeOK
<1>4. ASSUME NEW p \in Packs, NEW factory \in BOOLEAN, LoadPack(p, factory)
      PROVE  TypeOK'
  <2>1. [op |-> "pack", pack |-> p, factory |-> factory] \in Calls
    BY DEF Calls
  <2>2. history' \in Seq(Calls)
    BY <1>4, <2>1, CallTyped DEF LoadPack
  <2> QED
    BY <1>4, <2>2 DEF LoadPack, TypeOK
<1>5. CASE SkipBridge
  <2>1. loading # 0
    BY <1>5 DEF SkipBridge, Loading
  <2>2. OverridesTyped(overrides') /\ loading' \in Nat
    BY <1>5, <2>1, SpecTyped, EnteredTyped DEF SkipBridge, NextProvider, TypeOK
  <2> QED
    BY <1>5, <2>2 DEF SkipBridge, NextProvider, TypeOK
<1>6. CASE MessageBridgeBuilt
  <2>1. loading # 0
    BY <1>6 DEF MessageBridgeBuilt, Loading
  <2>2. OverridesTyped(overrides') /\ Len(history) \in Nat
    BY <1>6, <2>1, SpecTyped, EnteredTyped DEF MessageBridgeBuilt, TypeOK
  <2>3. bridges' \in [Directions -> [Names -> Nat]]
    BY <1>6, <2>2 DEF MessageBridgeBuilt, TypeOK
  <2> QED
    BY <1>6, <2>2, <2>3 DEF MessageBridgeBuilt, TypeOK
<1>7. CASE EventBridgeBuilt
  <2>1. loading # 0
    BY <1>7 DEF EventBridgeBuilt, Loading
  <2>2. loading' \in Nat /\ Len(history) \in Nat
    BY <1>7, <2>1, SpecTyped DEF EventBridgeBuilt, NextProvider, TypeOK
  <2>3. bridges' \in [Directions -> [Names -> Nat]]
    BY <1>7, <2>2 DEF EventBridgeBuilt, TypeOK
  <2> QED
    BY <1>7, <2>2, <2>3 DEF EventBridgeBuilt, NextProvider, TypeOK
<1>8. CASE ProviderBuilt
  <2>1. loading # 0
    BY <1>8 DEF ProviderBuilt, Loading
  <2>2. OverridesTyped(overrides') /\ loading' \in Nat
    BY <1>8, <2>1, SpecTyped, EnteredTyped DEF ProviderBuilt, NextProvider, TypeOK
  <2>3. Overridden(Unset, overrides', Spec0.name) \in Settings
    BY <2>1, <2>2, SpecTyped, OverriddenTyped, UnsetTyped
  <2>4. Registration(Spec0.name, Overridden(Unset, overrides', Spec0.name),
                     Len(history), loading) \in Registrations
    BY <2>1, <2>3, SpecTyped DEF Registration, Registrations, TypeOK
  <2>5. providers' \in Seq(Registrations)
    BY <1>8, <2>4, AppendAt DEF ProviderBuilt, TypeOK
  <2> QED
    BY <1>8, <2>2, <2>5 DEF ProviderBuilt, NextProvider, TypeOK
<1>9. CASE FactoryFails
  BY <1>9 DEF FactoryFails, TypeOK
<1>10. CASE Build
  <2>1. \A i \in 1 .. Len(providers) :
          [providers[i] EXCEPT !.settings =
             Overridden(providers[i].settings, overrides, providers[i].name)]
            \in Registrations
    <3> TAKE i \in 1 .. Len(providers)
    <3>1. providers[i] \in Registrations
      BY ElementOfSeq DEF TypeOK
    <3>2. Overridden(providers[i].settings, overrides, providers[i].name) \in Settings
      BY <3>1, OverriddenTyped DEF TypeOK, Registrations
    <3> QED
      BY <3>1, <3>2 DEF Registrations
  <2>2. bus' \in Seq(Registrations)
    <3>1. Len(providers) \in Nat /\ DOMAIN providers = 1 .. Len(providers)
      BY LenProperties DEF TypeOK
    <3>2. bus' \in [1 .. Len(providers) -> Registrations]
      BY <1>10, <2>1, <3>1 DEF Build
    <3> QED
      BY <3>1, <3>2, SeqDef
  <2> QED
    BY <1>10, <2>2 DEF Build, TypeOK
<1>11. CASE UNCHANGED vars
  BY <1>11 DEF vars, TypeOK
<1> QED
  BY <1>1, <1>2, <1>3, <1>4, <1>5, <1>6, <1>7, <1>8, <1>9, <1>10, <1>11 DEF Next

---------------------------------------------------------------------------
(* Packs enter as a whole *)

LEMMA StepPosition == TypeOK /\ Position /\ [Next]_vars => Position'
<1> SUFFICES ASSUME TypeOK, Position, [Next]_vars
             PROVE  Position'
  OBVIOUS
<1> USE DEF Position
<1>1. ASSUME NEW map \in OverrideMaps, WithOverrides(map)
      PROVE  Position'
  BY <1>1 DEF WithOverrides, Call
<1>2. ASSUME NEW n \in Names, NEW s \in OwnSettings, RegisterProvider(n, s)
      PROVE  Position'
  BY <1>2 DEF RegisterProvider, Call
<1>3. ASSUME NEW d \in Directions, NEW n \in Names, RegisterBridge(d, n)
      PROVE  Position'
  BY <1>3 DEF RegisterBridge, Call
<1>4. ASSUME NEW p \in Packs, NEW factory \in BOOLEAN, LoadPack(p, factory)
      PROVE  Position'
  <2> DEFINE c == [op |-> "pack", pack |-> p, factory |-> factory]
  <2>1. c \in Calls
    BY DEF Calls
  <2>2. Len(history') = Len(history) + 1 /\ history'[Len(history) + 1] = c
        /\ Len(history) \in Nat /\ loading = 0 /\ outcome = "building"
        /\ history' \in Seq(Calls)
    BY <1>4, <2>1, CallTyped DEF LoadPack
  <2>3. Current' = c /\ history' # <<>>
    BY <2>2, EmptySeq DEF Current
  <2>4. p.providers # <<>> => 1 \in DOMAIN p.providers
    <3>1. p.providers \in Seq([name : Names, kind : {"bridge", "other"}])
      BY RegistrationAssumption DEF IsPack
    <3> QED
      BY <3>1, EmptySeq, LenProperties
  <2> QED
    BY <1>4, <2>2, <2>3, <2>4 DEF LoadPack
<1>5. CASE SkipBridge \/ EventBridgeBuilt \/ ProviderBuilt
  <2>1. NextProvider /\ loading # 0 /\ history' = history /\ outcome' = outcome
    BY <1>5 DEF SkipBridge, EventBridgeBuilt, ProviderBuilt, Loading
  <2>2. Current' = Current
    BY <2>1 DEF Current
  <2>3. loading' = 0 \/ loading' \in DOMAIN Current.pack.providers
    <3>1. /\ loading \in 1 .. Len(Current.pack.providers)
          /\ Len(Current.pack.providers) \in Nat
          /\ DOMAIN Current.pack.providers = 1 .. Len(Current.pack.providers)
      BY <2>1, SpecTyped
    <3> QED
      BY <2>1, <3>1 DEF NextProvider
  <2> QED
    BY <2>1, <2>2, <2>3 DEF NextProvider
<1>6. CASE MessageBridgeBuilt
  BY <1>6 DEF MessageBridgeBuilt, Loading, Current, Spec0
<1>7. CASE FactoryFails
  BY <1>7 DEF FactoryFails, Current, Spec0
<1>8. CASE Build
  BY <1>8 DEF Build, Current, Spec0
<1>9. CASE UNCHANGED vars
  BY <1>9 DEF vars, Current, Spec0
<1> QED
  BY <1>1, <1>2, <1>3, <1>4, <1>5, <1>6, <1>7, <1>8, <1>9 DEF Next

\* The providers of a pack in the history are providers.
LEMMA PackTyped ==
  ASSUME TypeOK, NEW k \in 1 .. Len(history), history[k].op = "pack",
         NEW s \in DOMAIN history[k].pack.providers
  PROVE  /\ history[k].pack.providers[s].name \in Names
         /\ s \in 1 .. Len(history[k].pack.providers)
<1>1. history[k] \in Calls
  BY ElementOfSeq DEF TypeOK
<1>2. history[k].pack \in Packs
  BY <1>1 DEF Calls
<1>3. history[k].pack.providers \in Seq([name : Names, kind : {"bridge", "other"}])
  BY <1>2, RegistrationAssumption DEF IsPack
<1>4. s \in 1 .. Len(history[k].pack.providers)
  BY <1>3, LenProperties
<1>5. history[k].pack.providers[s] \in [name : Names, kind : {"bridge", "other"}]
  BY <1>3, <1>4, ElementOfSeq
<1> QED
  BY <1>4, <1>5

\* What a step may do to the registries: add to them, and let the current or
\* a later call take over a name.
RegistriesGrow ==
  /\ \A i \in DOMAIN providers : i \in DOMAIN providers' /\ providers'[i] = providers[i]
  /\ \A d \in Directions, n \in Names :
       \/ bridges'[d][n] = bridges[d][n]
       \/ bridges'[d][n] \in {Len(history), Len(history) + 1}

\* What is there stays there.
LEMMA EntersKept ==
  ASSUME TypeOK, RegistriesGrow,
         NEW k \in 1 .. Len(history), history'[k] = history[k], history[k].op = "pack",
         NEW s \in DOMAIN history[k].pack.providers,
         EntersAs(providers, k, s)
  PROVE  EntersAs(providers, k, s)'
<1> DEFINE spec == history[k].pack.providers[s]
<1>1. spec.name \in Names
  BY PackTyped
<1>2. Len(history) \in Nat /\ \A d \in Directions, n \in Names : bridges[d][n] \in Nat
  BY LenProperties DEF TypeOK
<1>3. CASE spec.kind = "other"
  BY <1>3 DEF EntersAs, RegistriesGrow
<1>4. CASE spec.kind # "other"
  <2>1. history[k].factory => \A d \in Directions : bridges[d][spec.name] >= k
    BY <1>4 DEF EntersAs
  <2>2. history[k].factory => \A d \in Directions : bridges'[d][spec.name] >= k
    BY <1>1, <1>2, <2>1 DEF RegistriesGrow
  <2> QED
    BY <1>4, <2>2 DEF EntersAs
<1> QED
  BY <1>3, <1>4

\* A call is made: what is there stays, and a pack is at its start.
LEMMA CallKeepsOrder ==
  ASSUME WholeInv, NEW c \in Calls, Call(c), RegistriesGrow, UNCHANGED <<half, bus>>,
         outcome' = "building" /\ c.op = "pack" => 
           loading' = IF c.pack.providers # <<>> THEN 1 ELSE 0,
         outcome' \in {"building", "failed"}
  PROVE  WholeSoFar' /\ HalfBridge' /\ BusCopies'
<1>1. /\ Len(history') = Len(history) + 1 /\ Len(history) \in Nat
      /\ DOMAIN history' = 1 .. (Len(history) + 1) /\ DOMAIN history = 1 .. Len(history)
      /\ \A i \in 1 .. Len(history) : history'[i] = history[i]
      /\ history'[Len(history) + 1] = c
      /\ outcome = "building" /\ loading = 0
  BY CallTyped DEF WholeInv
<1>2. WholeSoFar'
  <2> SUFFICES ASSUME outcome' = "building",
                      NEW k \in DOMAIN history', history'[k].op = "pack",
                      NEW s \in DOMAIN history'[k].pack.providers, Past(k, s)'
               PROVE  EntersAs(providers, k, s)'
    BY DEF WholeSoFar
  <2>1. CASE k \in 1 .. Len(history)
    <3>1. history'[k] = history[k] /\ EntersAs(providers, k, s)
      BY <1>1, <2>1 DEF WholeInv, WholeSoFar, Past
    <3> QED
      BY <2>1, <3>1, EntersKept DEF WholeInv
  <2>2. CASE k = Len(history) + 1
    <3>1. history'[k] = c
      BY <1>1, <2>2
    <3>2. c.op = "pack" /\ s \in DOMAIN c.pack.providers
      BY <3>1
    <3>3. c.pack \in Packs
      BY <3>2 DEF Calls
    <3>4. c.pack.providers \in Seq([name : Names, kind : {"bridge", "other"}])
      BY <3>3, RegistrationAssumption DEF IsPack
    <3>5. s \in Nat \ {0} /\ c.pack.providers # <<>>
      BY <3>2, <3>4, LenProperties, EmptySeq
    <3>6. loading' = 1
      BY <3>2, <3>5
    <3> QED
      BY <1>1, <2>2, <3>5, <3>6 DEF Past
  <2> QED
    BY <1>1, <2>1, <2>2
<1>3. HalfBridge' /\ BusCopies'
  BY <1>1 DEF WholeInv, HalfBridge, BusCopies, Position
<1> QED
  BY <1>2, <1>3

\* The loop goes on past a provider that is there.
LEMMA LoopKeepsOrder ==
  ASSUME WholeInv, loading # 0, outcome = "building", RegistriesGrow, NextProvider,
         UNCHANGED <<history, outcome, bus>>,
         NEW here, here = loading, NEW last, last = Len(history),
         EntersAs(providers, last, here)'
  PROVE  WholeSoFar' /\ HalfBridge' /\ BusCopies'
<1>1. /\ loading \in Nat /\ Len(history) \in Nat
      /\ loading' = 0 \/ loading' = loading + 1
      /\ loading' = 0 => loading = Len(history[Len(history)].pack.providers)
      /\ DOMAIN history = 1 .. Len(history)
  BY LenProperties DEF WholeInv, TypeOK, NextProvider, Current
<1>2. WholeSoFar'
  <2> SUFFICES ASSUME NEW k \in 1 .. Len(history), history[k].op = "pack",
                      NEW s \in DOMAIN history[k].pack.providers, Past(k, s)'
               PROVE  EntersAs(providers, k, s)'
    BY <1>1 DEF WholeSoFar
  <2>1. s \in 1 .. Len(history[k].pack.providers)
    BY PackTyped DEF WholeInv
  <2>2. k < Len(history) \/ k = Len(history)
    BY <1>1
  <2>3. ASSUME k = Len(history)
        PROVE  Past(k, s) \/ s = loading
    <3>1. CASE loading' = 0
      BY <1>1, <2>1, <2>3, <3>1 DEF Past
    <3>2. CASE loading' = loading + 1
      BY <1>1, <2>1, <2>3, <3>2 DEF Past
    <3> QED
      BY <1>1, <3>1, <3>2
  <2>4. Past(k, s) \/ (k = last /\ s = here)
    BY <2>2, <2>3 DEF Past
  <2>5. CASE k = last /\ s = here
    BY <2>5
  <2>6. CASE Past(k, s)
    <3>1. EntersAs(providers, k, s)
      BY <1>1, <2>6 DEF WholeInv, WholeSoFar
    <3> QED
      BY <3>1, EntersKept DEF WholeInv
  <2> QED
    BY <2>4, <2>5, <2>6
<1>3. HalfBridge' /\ BusCopies'
  BY DEF WholeInv, HalfBridge, BusCopies, NextProvider
<1> QED
  BY <1>2, <1>3

LEMMA RegistrationAppended ==
  ASSUME TypeOK, NEW r \in Registrations, providers' = Append(providers, r)
  PROVE  /\ DOMAIN providers = 1 .. Len(providers) /\ Len(providers) \in Nat
         /\ DOMAIN providers' = 1 .. (Len(providers) + 1)
         /\ \A i \in 1 .. Len(providers) : providers'[i] = providers[i]
         /\ providers'[Len(providers) + 1] = r
  BY AppendAt DEF TypeOK

\* A registration that is added comes after all that are there.
LEMMA AppendKeepsOrder ==
  ASSUME TypeOK, InOrder, NEW r \in Registrations, providers' = Append(providers, r),
         r.call \in 1 .. Len(history'), Len(history') \in Nat,
         Len(history) = Len(history') \/ Len(history) + 1 = Len(history'),
         Len(history) < r.call \/ (r.call = Len(history) /\ loading # 0 /\ r.position = loading),
         loading' = 0 \/ (loading' = loading + 1 /\ Len(history') = Len(history) /\ r.position < loading')
  PROVE  InOrder'
<1>1. /\ DOMAIN providers = 1 .. Len(providers) /\ Len(providers) \in Nat
      /\ DOMAIN providers' = 1 .. (Len(providers) + 1)
      /\ \A i \in 1 .. Len(providers) : providers'[i] = providers[i]
      /\ providers'[Len(providers) + 1] = r
  BY RegistrationAppended
<1>2. loading \in Nat /\ Len(history) \in Nat
  BY LenProperties DEF TypeOK
<1>3. \A i \in 1 .. Len(providers) :
        /\ providers[i].call \in 1 .. Len(history) /\ providers[i].position \in Nat
        /\ loading # 0 /\ providers[i].call = Len(history) => providers[i].position < loading
        /\ Precedes(providers[i], r)
  <2> TAKE i \in 1 .. Len(providers)
  <2>1. providers[i] \in Registrations
    BY ElementOfSeq DEF TypeOK
  <2>2. /\ providers[i].call \in 1 .. Len(history) /\ providers[i].position \in Nat
        /\ loading # 0 /\ providers[i].call = Len(history) => providers[i].position < loading
    BY <1>1, <2>1 DEF InOrder, Registrations
  <2>3. r.call \in Nat /\ r.position \in Nat
    BY DEF Registrations
  <2>4. Precedes(providers[i], r)
    BY <1>2, <2>2, <2>3 DEF Precedes
  <2> QED
    BY <2>2, <2>4
<1>4. \A i \in DOMAIN providers' :
        /\ providers'[i].call \in 1 .. Len(history')
        /\ loading' # 0 /\ providers'[i].call = Len(history')
             => providers'[i].position < loading'
  <2> SUFFICES ASSUME NEW i \in 1 .. (Len(providers) + 1)
               PROVE  /\ providers'[i].call \in 1 .. Len(history')
                      /\ loading' # 0 /\ providers'[i].call = Len(history')
                           => providers'[i].position < loading'
    BY <1>1
  <2>1. CASE i = Len(providers) + 1
    BY <1>1, <2>1
  <2>2. CASE i \in 1 .. Len(providers)
    <3>1. providers'[i] = providers[i]
      BY <1>1, <2>2
    <3>2. /\ providers[i].call \in 1 .. Len(history) /\ providers[i].position \in Nat
          /\ loading # 0 /\ providers[i].call = Len(history) => providers[i].position < loading
      BY <1>3, <2>2
    <3>3. providers[i].call \in 1 .. Len(history')
      BY <1>2, <3>2
    <3>4. loading' # 0 /\ providers[i].call = Len(history') => providers[i].position < loading'
      BY <1>2, <3>2
    <3> QED
      BY <3>1, <3>3, <3>4
  <2> QED
    BY <1>1, <2>1, <2>2
<1>5. \A i, j \in DOMAIN providers' : i < j => Precedes(providers'[i], providers'[j])
  <2> SUFFICES ASSUME NEW i \in 1 .. (Len(providers) + 1),
                      NEW j \in 1 .. (Len(providers) + 1), i < j
               PROVE  Precedes(providers'[i], providers'[j])
    BY <1>1
  <2>1. i \in 1 .. Len(providers) /\ providers'[i] = providers[i]
    BY <1>1
  <2>2. CASE j = Len(providers) + 1
    BY <1>1, <1>3, <2>1, <2>2
  <2>3. CASE j \in 1 .. Len(providers)
    BY <1>1, <2>1, <2>3 DEF InOrder
  <2> QED
    BY <1>1, <2>2, <2>3
<1> QED
  BY <1>4, <1>5 DEF InOrder, Precedes

\* Steps that register no provider keep the order of those there are.
LEMMA SameKeepsOrder ==
  ASSUME TypeOK, InOrder, UNCHANGED providers, Len(history') \in Nat,
         Len(history) <= Len(history'),
         loading' = 0 \/ Len(history) < Len(history')
           \/ (loading # 0 /\ loading <= loading' /\ loading' \in Nat)
  PROVE  InOrder'
<1>1. \A i \in DOMAIN providers :
        providers[i].call \in Nat /\ providers[i].position \in Nat
  <2> TAKE i \in DOMAIN providers
  <2>1. providers[i] \in Registrations
    BY ElementOfSeq, LenProperties DEF TypeOK
  <2> QED
    BY <2>1 DEF Registrations
<1>2. loading \in Nat /\ Len(history) \in Nat
  BY LenProperties DEF TypeOK
<1> QED
  BY <1>1, <1>2 DEF InOrder, Precedes

\* A registration and bridges only come to those that are there.
LEMMA StepInOrder == WholeInv /\ Next => InOrder'
<1> SUFFICES ASSUME WholeInv, Next
             PROVE  InOrder'
  OBVIOUS
<1> USE DEF WholeInv
<1>0. Len(history) \in Nat /\ loading \in Nat
  BY LenProperties DEF TypeOK
<1>1. ASSUME NEW c \in Calls, Call(c)
      PROVE  Len(history') = Len(history) + 1 /\ loading = 0
  BY <1>1, CallTyped
<1>2. ASSUME NEW map \in OverrideMaps, WithOverrides(map)
      PROVE  InOrder'
  <2>1. [op |-> "overrides", map |-> map] \in Calls
    BY DEF Calls
  <2>2. Len(history') = Len(history) + 1
    BY <1>1, <1>2, <2>1 DEF WithOverrides
  <2> QED
    BY <1>0, <1>2, <2>2, SameKeepsOrder DEF WithOverrides
<1>3. ASSUME NEW n \in Names, NEW s \in OwnSettings, RegisterProvider(n, s)
      PROVE  InOrder'
  <2> DEFINE r == Registration(n, s, Len(history) + 1, 1)
  <2>1. [op |-> "provider", name |-> n, settings |-> s] \in Calls
    BY DEF Calls
  <2>2. Len(history') = Len(history) + 1 /\ loading = 0
    BY <1>1, <1>3, <2>1 DEF RegisterProvider
  <2>3. r \in Registrations
    BY <1>0, RegistrationAssumption DEF Registration, Registrations, Settings
  <2>4. providers' = Append(providers, r) /\ loading' = 0 /\ r.call = Len(history) + 1
    BY <1>3, <2>2 DEF RegisterProvider, Registration
  <2> HIDE DEF r
  <2> QED
    BY <1>0, <2>2, <2>3, <2>4, AppendKeepsOrder
<1>4. ASSUME NEW d \in Directions, NEW n \in Names, RegisterBridge(d, n)
      PROVE  InOrder'
  <2>1. [op |-> "bridge", direction |-> d, name |-> n] \in Calls
    BY DEF Calls
  <2>2. Len(history') = Len(history) + 1
    BY <1>1, <1>4, <2>1 DEF RegisterBridge
  <2> QED
    BY <1>0, <1>4, <2>2, SameKeepsOrder DEF RegisterBridge
<1>5. ASSUME NEW p \in Packs, NEW factory \in BOOLEAN, LoadPack(p, factory)
      PROVE  InOrder'
  <2>1. [op |-> "pack", pack |-> p, factory |-> factory] \in Calls
    BY DEF Calls
  <2>2. Len(history') = Len(history) + 1
    BY <1>1, <1>5, <2>1 DEF LoadPack
  <2> QED
    BY <1>0, <1>5, <2>2, SameKeepsOrder DEF LoadPack
<1>6. CASE SkipBridge \/ EventBridgeBuilt
  BY <1>0, <1>6, SameKeepsOrder
     DEF SkipBridge, EventBridgeBuilt, NextProvider, Loading
<1>7. CASE ProviderBuilt
  <2> DEFINE r == Registration(Spec0.name, Overridden(Unset, overrides', Spec0.name),
                               Len(history), loading)
  <2>1. loading # 0 /\ history' = history
        /\ (loading' = 0 \/ loading' = loading + 1)
    BY <1>7 DEF ProviderBuilt, Loading, NextProvider
  <2>2. OverridesTyped(overrides') /\ Spec0.name \in Names
    BY <1>7, <2>1, SpecTyped, EnteredTyped DEF ProviderBuilt, TypeOK
  <2>3. Overridden(Unset, overrides', Spec0.name) \in Settings
    BY <2>2, OverriddenTyped, UnsetTyped
  <2>4. r \in Registrations
    BY <1>0, <2>2, <2>3 DEF Registration, Registrations
  <2>5. providers' = Append(providers, r) /\ r.call = Len(history) /\ r.position = loading
    BY <1>7 DEF ProviderBuilt, Registration
  <2>6. Len(history) \in 1 .. Len(history)
    BY <2>1, SpecTyped
  <2> HIDE DEF r
  <2> QED
    BY <1>0, <2>1, <2>4, <2>5, <2>6, AppendKeepsOrder
<1>8. CASE MessageBridgeBuilt \/ FactoryFails \/ Build
  BY <1>0, <1>8, SameKeepsOrder DEF MessageBridgeBuilt, FactoryFails, Build
<1> QED
  BY <1>2, <1>3, <1>4, <1>5, <1>6, <1>7, <1>8 DEF Next

\* What the loop is past is there after every step.
LEMMA StepWhole == WholeInv /\ Next => WholeSoFar' /\ HalfBridge' /\ BusCopies'
<1> SUFFICES ASSUME WholeInv, Next
             PROVE  WholeSoFar' /\ HalfBridge' /\ BusCopies'
  OBVIOUS
<1> USE DEF WholeInv
<1>1. ASSUME NEW map \in OverrideMaps, WithOverrides(map)
      PROVE  WholeSoFar' /\ HalfBridge' /\ BusCopies'
  <2> DEFINE c == [op |-> "overrides", map |-> map]
  <2>1. c \in Calls /\ Call(c) /\ c.op # "pack"
    BY <1>1 DEF Calls, WithOverrides
  <2>2. RegistriesGrow /\ outcome' \in {"building", "failed"} /\ UNCHANGED <<half, bus>>
    BY <1>1 DEF WithOverrides, RegistriesGrow, Call
  <2> HIDE DEF c
  <2> QED
    BY <2>1, <2>2, CallKeepsOrder
<1>2. ASSUME NEW n \in Names, NEW s \in OwnSettings, RegisterProvider(n, s)
      PROVE  WholeSoFar' /\ HalfBridge' /\ BusCopies'
  <2> DEFINE c == [op |-> "provider", name |-> n, settings |-> s]
             r == Registration(n, s, Len(history) + 1, 1)
  <2>1. c \in Calls /\ Call(c) /\ c.op # "pack"
    BY <1>2 DEF Calls, RegisterProvider
  <2>2. r \in Registrations
    BY LenProperties, RegistrationAssumption
       DEF Registration, Registrations, Settings, TypeOK
  <2>3. providers' = Append(providers, r)
    BY <1>2 DEF RegisterProvider
  <2>4. RegistriesGrow
    BY <1>2, <2>2, <2>3, RegistrationAppended DEF RegisterProvider, RegistriesGrow
  <2>5. outcome' \in {"building", "failed"} /\ UNCHANGED <<half, bus>>
    BY <1>2 DEF RegisterProvider, Call
  <2> HIDE DEF c
  <2> QED
    BY <2>1, <2>4, <2>5, CallKeepsOrder
<1>3. ASSUME NEW d \in Directions, NEW n \in Names, RegisterBridge(d, n)
      PROVE  WholeSoFar' /\ HalfBridge' /\ BusCopies'
  <2> DEFINE c == [op |-> "bridge", direction |-> d, name |-> n]
  <2>1. c \in Calls /\ Call(c) /\ c.op # "pack"
    BY <1>3 DEF Calls, RegisterBridge
  <2>2. RegistriesGrow
    BY <1>3 DEF RegisterBridge, RegistriesGrow, TypeOK
  <2>3. outcome' \in {"building", "failed"} /\ UNCHANGED <<half, bus>>
    BY <1>3 DEF RegisterBridge, Call
  <2> HIDE DEF c
  <2> QED
    BY <2>1, <2>2, <2>3, CallKeepsOrder
<1>4. ASSUME NEW p \in Packs, NEW factory \in BOOLEAN, LoadPack(p, factory)
      PROVE  WholeSoFar' /\ HalfBridge' /\ BusCopies'
  <2> DEFINE c == [op |-> "pack", pack |-> p, factory |-> factory]
  <2>1. c \in Calls /\ Call(c) /\ c.pack = p
    BY <1>4 DEF Calls, LoadPack
  <2>2. RegistriesGrow /\ outcome' \in {"building", "failed"} /\ UNCHANGED <<half, bus>>
    BY <1>4 DEF LoadPack, RegistriesGrow
  <2>3. outcome' = "building" => loading' = IF c.pack.providers # <<>> THEN 1 ELSE 0
    BY <1>4, <2>1 DEF LoadPack
  <2> HIDE DEF c
  <2> QED
    BY <2>1, <2>2, <2>3, CallKeepsOrder
<1>5. CASE SkipBridge \/ EventBridgeBuilt \/ ProviderBuilt
  <2>1. /\ loading # 0 /\ outcome = "building" /\ NextProvider
        /\ UNCHANGED <<history, outcome, bus>>
    BY <1>5 DEF SkipBridge, EventBridgeBuilt, ProviderBuilt, Loading
  <2>2. RegistriesGrow
    <3>1. CASE SkipBridge
      BY <3>1 DEF SkipBridge, RegistriesGrow
    <3>2. CASE EventBridgeBuilt
      BY <3>2 DEF EventBridgeBuilt, RegistriesGrow, TypeOK
    <3>3. CASE ProviderBuilt
      <4> DEFINE r == Registration(Spec0.name, Overridden(Unset, overrides', Spec0.name),
                                   Len(history), loading)
      <4>1. providers' = Append(providers, r) /\ bridges' = bridges
        BY <3>3 DEF ProviderBuilt
      <4>2. OverridesTyped(overrides') /\ Spec0.name \in Names
        BY <2>1, <3>3, SpecTyped, EnteredTyped DEF ProviderBuilt, TypeOK
      <4>3. Overridden(Unset, overrides', Spec0.name) \in Settings
        BY <4>2, OverriddenTyped, UnsetTyped
      <4>4. r \in Registrations
        BY <2>1, <4>2, <4>3, LenProperties DEF Registration, Registrations, TypeOK
      <4> QED
        BY <4>1, <4>4, RegistrationAppended DEF RegistriesGrow
    <3> QED
      BY <1>5, <3>1, <3>2, <3>3
  <2>3. PICK here, last : here = loading /\ last = Len(history)
    OBVIOUS
  <2>4. Spec0 = history[last].pack.providers[here] /\ Current = history[last]
    BY <2>3 DEF Spec0, Current
  <2>5. EntersAs(providers, last, here)'
    <3>1. CASE SkipBridge
      BY <2>1, <2>4, <3>1 DEF SkipBridge, Loading, EntersAs
    <3>2. CASE EventBridgeBuilt
      <4>1. Spec0.kind = "bridge" /\ half /\ Spec0.name \in Names
            /\ Len(history) \in Nat
        BY <2>1, <3>2, SpecTyped DEF EventBridgeBuilt, Loading
      <4>2. /\ bridges'["toMessage"][Spec0.name] = Len(history)
            /\ bridges'["toEvent"][Spec0.name] = Len(history)
        BY <3>2, <4>1 DEF EventBridgeBuilt, HalfBridge, TypeOK, Directions
      <4>3. \A d \in Directions : bridges'[d][Spec0.name] >= last
        BY <2>3, <4>1, <4>2 DEF Directions
      <4> QED
        BY <2>1, <2>4, <4>1, <4>3 DEF EntersAs
    <3>3. CASE ProviderBuilt
      <4> DEFINE r == Registration(Spec0.name, Overridden(Unset, overrides', Spec0.name),
                                   Len(history), loading)
      <4>1. providers' = Append(providers, r) /\ Spec0.kind = "other"
        BY <3>3 DEF ProviderBuilt, Loading
      <4>2. r.call = last /\ r.position = here
        BY <2>3 DEF Registration
      <4>3. /\ Len(providers) + 1 \in DOMAIN providers'
            /\ providers'[Len(providers) + 1] = r
        BY <4>1 DEF TypeOK
      <4> QED
        BY <2>1, <2>4, <4>1, <4>2, <4>3 DEF EntersAs
    <3> QED
      BY <1>5, <3>1, <3>2, <3>3
  <2> QED
    BY <2>1, <2>2, <2>3, <2>5, LoopKeepsOrder
<1>6. CASE MessageBridgeBuilt
  <2>1. /\ loading # 0 /\ outcome = "building" /\ loading' = loading
        /\ UNCHANGED <<history, outcome, bus, providers>>
    BY <1>6 DEF MessageBridgeBuilt, Loading
  <2>2. Spec0.name \in Names
    BY <2>1, SpecTyped
  <2>3. RegistriesGrow
    BY <1>6, <2>2 DEF MessageBridgeBuilt, RegistriesGrow, TypeOK, Directions
  <2>4. WholeSoFar'
    <3>1. DOMAIN history = 1 .. Len(history)
      BY LenProperties DEF TypeOK
    <3> SUFFICES ASSUME NEW k \in 1 .. Len(history), history[k].op = "pack",
                        NEW s \in DOMAIN history[k].pack.providers, Past(k, s)
                 PROVE  EntersAs(providers, k, s)'
      BY <2>1, <3>1 DEF WholeSoFar, Past
    <3>2. EntersAs(providers, k, s)
      BY <2>1, <3>1 DEF WholeSoFar
    <3> QED
      BY <2>1, <2>3, <3>2, EntersKept
  <2>5. bridges'["toEvent"][Spec0.name] = Len(history)
    BY <1>6, <2>2 DEF MessageBridgeBuilt, TypeOK, Directions
  <2> QED
    BY <2>1, <2>4, <2>5 DEF HalfBridge, BusCopies, Spec0, Current
<1>7. CASE FactoryFails
  BY <1>7 DEF FactoryFails, WholeSoFar, HalfBridge, BusCopies, Spec0, Current
<1>8. CASE Build
  <2>1. WholeSoFar'
    BY <1>8 DEF Build, WholeSoFar, Past, EntersAs
  <2>2. HalfBridge'
    BY <1>8 DEF Build, HalfBridge, Position
  <2>3. BusCopies'
    <3>1. DOMAIN bus' = DOMAIN providers
      BY <1>8 DEF Build
    <3>2. ASSUME NEW i \in DOMAIN providers
          PROVE  /\ bus'[i].name = providers[i].name
                 /\ bus'[i].call = providers[i].call
                 /\ bus'[i].position = providers[i].position
      <4>1. providers[i] \in Registrations
        BY ElementOfSeq, LenProperties DEF TypeOK
      <4> QED
        BY <1>8, <4>1 DEF Build, Registrations
    <3> QED
      BY <1>8, <3>1, <3>2 DEF Build, BusCopies
  <2> QED
    BY <2>1, <2>2, <2>3
<1> QED
  BY <1>1, <1>2, <1>3, <1>4, <1>5, <1>6, <1>7, <1>8 DEF Next

---------------------------------------------------------------------------
(* What is in force, as the calls go on *)

LEMMA EarliestIsLeast ==
  ASSUME NEW S, S \subseteq Nat, S # {}
  PROVE  Earliest(S) \in S /\ \A j \in S : Earliest(S) <= j
<1>1. PICK x \in S : \A y \in S : <<y, x>> \notin OpToRel(<, Nat)
  BY NatLessThanWellFounded, WFMin
<1>2. \A j \in S : x <= j
  <2>1. SUFFICES ASSUME NEW j \in S, j < x PROVE FALSE
    BY SMT
  <2>2. <<j, x>> \in Nat \X Nat /\ <<j, x>>[1] < <<j, x>>[2]
    BY <2>1, SMT
  <2>3. <<j, x>> \in OpToRel(<, Nat)
    BY <2>2, Zenon DEF OpToRel
  <2> QED
    BY <1>1, <2>3
<1> QED
  BY <1>2 DEF Earliest

\* The greatest element is the one whose distance to the bound is least.
LEMMA LatestIsGreatest ==
  ASSUME NEW k \in Nat, NEW S, S \subseteq 1 .. k, S # {}
  PROVE  Latest(S) \in S /\ \A j \in S : j <= Latest(S)
<1> DEFINE T == {k - i : i \in S}
<1>1. T \subseteq Nat /\ T # {}
  <2>1. \A i \in S : k - i \in Nat
    OBVIOUS
  <2> QED
    BY <2>1
<1>2. Earliest(T) \in T /\ \A d \in T : Earliest(T) <= d
  BY <1>1, EarliestIsLeast
<1>3. PICK x \in S : Earliest(T) = k - x
  BY <1>2
<1>4. \A j \in S : j <= x
  <2> TAKE j \in S
  <2>1. k - j \in T
    OBVIOUS
  <2>2. k - x <= k - j
    BY <1>2, <1>3, <2>1
  <2> QED
    BY <2>2
<1> QED
  BY <1>4 DEF Latest

\* The place of the last replacement, and that it is the only such place.
LEMMA LastReplacedIs ==
  ASSUME NEW calls, NEW k \in Nat
  PROVE  /\ LastReplaced(calls, k) \in 0 .. k
         /\ LastReplaced(calls, k) # 0 =>
              LastReplaced(calls, k) \in Replacements(calls, k)
         /\ \A j \in Replacements(calls, k) : j <= LastReplaced(calls, k)
<1>1. Replacements(calls, k) \subseteq 1 .. k
  BY DEF Replacements
<1>2. CASE Replacements(calls, k) = {}
  BY <1>2 DEF LastReplaced
<1>3. CASE Replacements(calls, k) # {}
  BY <1>1, <1>3, LatestIsGreatest DEF LastReplaced
<1> QED
  BY <1>2, <1>3

LEMMA LastReplacedOnly ==
  ASSUME NEW calls, NEW k \in Nat, NEW r \in 0 .. k,
         r # 0 => r \in Replacements(calls, k),
         \A j \in Replacements(calls, k) : j <= r
  PROVE  LastReplaced(calls, k) = r
<1>1. LastReplaced(calls, k) = 0 => Replacements(calls, k) = {}
  BY LastReplacedIs DEF Replacements
<1>2. LastReplaced(calls, k) <= r
  BY LastReplacedIs
<1>3. r <= LastReplaced(calls, k)
  BY LastReplacedIs
<1> QED
  BY <1>2, <1>3, LastReplacedIs

\* An entry stands for the name.
Present(calls, n, k) == Given(calls, n, k) \/ Annotating(calls, n, k) # {}

\* Calls that come later change nothing in what was in force.
LEMMA PrefixInForce ==
  ASSUME NEW calls, NEW longer, NEW k \in Nat, NEW n,
         \A i \in 1 .. k : longer[i] = calls[i]
  PROVE  /\ Present(longer, n, k) <=> Present(calls, n, k)
         /\ InForce(longer, n, k) = InForce(calls, n, k)
<1> DEFINE last == LastReplaced(calls, k)
<1>1. Replacements(longer, k) = Replacements(calls, k)
  BY DEF Replacements
<1>2. LastReplaced(longer, k) = last
  BY <1>1 DEF LastReplaced
<1>3. last \in 0 .. k
  BY LastReplacedIs
<1>4. Given(longer, n, k) <=> Given(calls, n, k)
  BY <1>2, <1>3 DEF Given
<1>5. Given(calls, n, k) => longer[last].map[n] = calls[last].map[n]
  BY <1>3 DEF Given
<1>6. Annotating(longer, n, k) = Annotating(calls, n, k)
  <2>1. \A i \in (last + 1) .. k : longer[i] = calls[i]
    BY <1>3
  <2> HIDE DEF last
  <2> QED
    BY <1>2, <2>1 DEF Annotating, last
<1>7. Annotating(calls, n, k) # {} => Earliest(Annotating(calls, n, k)) \in 1 .. k
  <2>1. Annotating(calls, n, k) \subseteq 1 .. k
    BY <1>3 DEF Annotating
  <2>2. Annotating(calls, n, k) \subseteq Nat
    BY <2>1
  <2> QED
    BY <2>1, <2>2, EarliestIsLeast
<1> HIDE DEF last
<1> QED
  BY <1>2, <1>4, <1>5, <1>6, <1>7 DEF Present, InForce, last

\* A replacement is all that counts once it is made.
LEMMA ReplacementInForce ==
  ASSUME NEW calls, NEW k \in Nat, NEW n, calls[k + 1].op = "overrides"
  PROVE  /\ Present(calls, n, k + 1) <=> n \in DOMAIN calls[k + 1].map
         /\ n \in DOMAIN calls[k + 1].map =>
              InForce(calls, n, k + 1) = calls[k + 1].map[n]
<1>1. LastReplaced(calls, k + 1) = k + 1
  <2>1. k + 1 \in Replacements(calls, k + 1)
    BY DEF Replacements
  <2>2. \A j \in Replacements(calls, k + 1) : j <= k + 1
    BY DEF Replacements
  <2> QED
    BY <2>1, <2>2, LastReplacedOnly
<1>2. Annotating(calls, n, k + 1) = {}
  BY <1>1 DEF Annotating
<1>3. Given(calls, n, k + 1) <=> n \in DOMAIN calls[k + 1].map
  BY <1>1 DEF Given
<1> QED
  BY <1>1, <1>2, <1>3 DEF Present, InForce

\* Any other call leaves the last replacement where it is.
LEMMA ReplacementStays ==
  ASSUME NEW calls, NEW k \in Nat, NEW n, calls[k + 1].op # "overrides"
  PROVE  /\ LastReplaced(calls, k + 1) = LastReplaced(calls, k)
         /\ Given(calls, n, k + 1) <=> Given(calls, n, k)
         /\ Annotating(calls, n, k + 1) =
              Annotating(calls, n, k) \cup
                (IF Annotates(calls[k + 1], n) THEN {k + 1} ELSE {})
<1>1. Replacements(calls, k + 1) = Replacements(calls, k)
  BY DEF Replacements
<1>2. LastReplaced(calls, k + 1) = LastReplaced(calls, k)
  BY <1>1 DEF LastReplaced
<1>3. LastReplaced(calls, k) \in 0 .. k
  BY LastReplacedIs
<1>4. Given(calls, n, k + 1) <=> Given(calls, n, k)
  BY <1>2 DEF Given
<1>5. Annotating(calls, n, k + 1) =
        Annotating(calls, n, k) \cup
          (IF Annotates(calls[k + 1], n) THEN {k + 1} ELSE {})
  <2>1. PICK last : last = LastReplaced(calls, k)
    OBVIOUS
  <2>2. (last + 1) .. (k + 1) = ((last + 1) .. k) \cup {k + 1}
    BY <1>3, <2>1
  <2> QED
    BY <1>2, <2>1, <2>2 DEF Annotating
<1> QED
  BY <1>2, <1>4, <1>5

LEMMA SilentCall ==
  ASSUME NEW calls, NEW k \in Nat, NEW n, calls[k + 1].op # "overrides",
         ~Annotates(calls[k + 1], n)
  PROVE  /\ Present(calls, n, k + 1) <=> Present(calls, n, k)
         /\ InForce(calls, n, k + 1) = InForce(calls, n, k)
<1>1. /\ LastReplaced(calls, k + 1) = LastReplaced(calls, k)
      /\ Given(calls, n, k + 1) <=> Given(calls, n, k)
      /\ Annotating(calls, n, k + 1) = Annotating(calls, n, k) \cup {}
  BY ReplacementStays
<1>2. Annotating(calls, n, k + 1) = Annotating(calls, n, k)
  BY <1>1
<1> QED
  BY <1>1, <1>2 DEF Present, InForce

\* A pack counts for a name that nothing is in force for.
LEMMA AnnotatingCall ==
  ASSUME NEW calls, NEW k \in Nat, NEW n, Annotates(calls[k + 1], n)
  PROVE  /\ Present(calls, n, k + 1)
         /\ InForce(calls, n, k + 1) =
              IF Present(calls, n, k) THEN InForce(calls, n, k)
              ELSE OverridesFromAnnotations(calls[k + 1].pack, n)
<1> DEFINE A == Annotating(calls, n, k)
<1>1. calls[k + 1].op # "overrides"
  BY DEF Annotates
<1>2. /\ Given(calls, n, k + 1) <=> Given(calls, n, k)
      /\ LastReplaced(calls, k + 1) = LastReplaced(calls, k)
      /\ Annotating(calls, n, k + 1) = A \cup {k + 1}
  BY <1>1, ReplacementStays
<1>3. A \subseteq 1 .. k
  BY LastReplacedIs DEF Annotating
<1>4. PICK e : e = Earliest(A \cup {k + 1})
  OBVIOUS
<1>5. e \in A \cup {k + 1} /\ \A j \in A \cup {k + 1} : e <= j
  <2>1. A \cup {k + 1} \subseteq Nat /\ A \cup {k + 1} # {}
    BY <1>3
  <2> HIDE DEF A
  <2> QED
    BY <1>4, <2>1, EarliestIsLeast
<1>6. CASE A = {}
  <2>1. e = k + 1
    BY <1>5, <1>6
  <2> QED
    BY <1>2, <1>4, <1>6, <2>1 DEF Present, InForce
<1>7. CASE A # {}
  <2>1. A \subseteq Nat
    BY <1>3
  <2>2. Earliest(A) \in A /\ \A j \in A : Earliest(A) <= j
    BY <1>7, <2>1, EarliestIsLeast
  <2>3. e <= Earliest(A) /\ e \in A /\ Earliest(A) <= e
    BY <1>3, <1>5, <2>2
  <2>4. e = Earliest(A)
    BY <2>1, <2>2, <2>3
  <2> QED
    BY <1>2, <1>4, <1>7, <2>4 DEF Present, InForce
<1> QED
  BY <1>6, <1>7

---------------------------------------------------------------------------
(* The overrides are what is in force *)

EntryIs(map, calls, n, k) ==
  /\ n \in DOMAIN map <=> Present(calls, n, k)
  /\ n \in DOMAIN map => map[n] = InForce(calls, n, k)

\* The loop has not entered the annotations for a name yet.
Unreached(n) ==
  /\ loading # 0
  /\ \A s \in DOMAIN Current.pack.providers :
       Current.pack.providers[s].name = n => s > loading \/ (s = loading /\ ~half)

\* The entry for a name is what is in force, without the pack being loaded
\* as long as the loop has not come to that name.
MapInv ==
  outcome = "building" =>
    \A n \in Names :
      EntryIs(overrides, history, n,
              IF Unreached(n) THEN Len(history) - 1 ELSE Len(history))

\* OverridePrecedence speaks of the bus; before it is built, a registration
\* has the settings it starts from.
SettingsInv ==
  \A i \in DOMAIN providers : providers[i].settings = StartsFrom(providers[i])

LEMMA EnteredOther ==
  ASSUME NEW p, NEW m, NEW n, m # n, NEW calls, NEW k,
         EntryIs(overrides, calls, n, k)
  PROVE  EntryIs(Entered(p, m), calls, n, k)
<1>1. CASE OverridesFromAnnotations(p, m) = None
  BY <1>1 DEF Entered
<1>2. CASE OverridesFromAnnotations(p, m) # None
  <2>1. DOMAIN Entered(p, m) = DOMAIN overrides \cup {m}
    BY <1>2 DEF Entered
  <2>2. n \in DOMAIN overrides => Entered(p, m)[n] = overrides[n]
    BY <1>2 DEF Entered
  <2> QED
    BY <2>1, <2>2 DEF EntryIs
<1> QED
  BY <1>1, <1>2

\* The provider of call k + 1 whose annotations are entered has the name n.
Offers(call, n) ==
  /\ call.op = "pack"
  /\ \E s \in DOMAIN call.pack.providers : call.pack.providers[s].name = n

LEMMA EnteredName ==
  ASSUME NEW calls, NEW k \in Nat, NEW n, Offers(calls[k + 1], n),
         \/ EntryIs(overrides, calls, n, k)
         \/ EntryIs(overrides, calls, n, k + 1)
  PROVE  EntryIs(Entered(calls[k + 1].pack, n), calls, n, k + 1)
<1> DEFINE p == calls[k + 1].pack
           ov == OverridesFromAnnotations(p, n)
<1>1. CASE ov = None
  <2>1. calls[k + 1].op # "overrides" /\ ~Annotates(calls[k + 1], n)
    BY <1>1 DEF Offers, Annotates
  <2>2. Entered(p, n) = overrides
    BY <1>1 DEF Entered
  <2> QED
    BY <2>1, <2>2, SilentCall DEF EntryIs
<1>2. CASE ov # None
  <2>1. Annotates(calls[k + 1], n)
    BY <1>2 DEF Offers, Annotates
  <2>2. /\ Present(calls, n, k + 1)
        /\ InForce(calls, n, k + 1) =
             IF Present(calls, n, k) THEN InForce(calls, n, k) ELSE ov
    BY <2>1, AnnotatingCall
  <2>3. /\ n \in DOMAIN Entered(p, n)
        /\ Entered(p, n)[n] = IF n \in DOMAIN overrides THEN overrides[n] ELSE ov
    BY <1>2 DEF Entered
  <2> HIDE DEF ov
  <2> QED
    BY <2>2, <2>3 DEF EntryIs
<1> QED
  BY <1>1, <1>2

\* What the loop is at, as a call of the history.
LEMMA CurrentCall ==
  ASSUME TypeOK, Position, loading # 0
  PROVE  /\ Len(history) - 1 \in Nat /\ (Len(history) - 1) + 1 = Len(history)
         /\ Current = history[(Len(history) - 1) + 1]
         /\ Spec0 = Current.pack.providers[loading]
         /\ loading \in DOMAIN Current.pack.providers
         /\ DOMAIN Current.pack.providers = 1 .. Len(Current.pack.providers)
         /\ Len(Current.pack.providers) \in Nat
         /\ Offers(Current, Spec0.name)
<1>1. /\ Len(history) \in Nat \ {0} /\ Current.pack \in Packs
      /\ Len(Current.pack.providers) \in Nat
      /\ Current.op = "pack"
  BY SpecTyped
<1>2. DOMAIN Current.pack.providers = 1 .. Len(Current.pack.providers)
  <2>1. Current.pack.providers \in Seq([name : Names, kind : {"bridge", "other"}])
    BY <1>1, RegistrationAssumption DEF IsPack
  <2> QED
    BY <2>1, LenProperties
<1>3. (Len(history) - 1) + 1 = Len(history) /\ Len(history) - 1 \in Nat
  BY <1>1
<1>4. loading \in DOMAIN Current.pack.providers
  BY DEF Position
<1> QED
  BY <1>1, <1>2, <1>3, <1>4 DEF Current, Spec0, Offers

\* Once the loop has ended, a name it has not come to is not in the pack.
LEMMA LoopEnds ==
  ASSUME TypeOK, Position, loading # 0, loading = Len(Current.pack.providers),
         NEW n, Unreached(n), n # Spec0.name \/ half,
         EntryIs(overrides, history, n, Len(history) - 1)
  PROVE  EntryIs(overrides, history, n, Len(history))
<1> DEFINE k == Len(history) - 1
<1>1. k \in Nat /\ k + 1 = Len(history) /\ Current = history[k + 1]
  BY CurrentCall
<1>2. ~Offers(Current, n)
  <2> SUFFICES ASSUME NEW s \in DOMAIN Current.pack.providers,
                      Current.pack.providers[s].name = n
               PROVE  FALSE
    BY DEF Offers
  <2>1. s > loading
    BY CurrentCall DEF Unreached
  <2> QED
    BY <2>1, CurrentCall
<1>3. Current.op # "overrides" /\ ~Annotates(Current, n)
  BY <1>2 DEF Position, Annotates, Offers
<1> HIDE DEF k
<1>4. EntryIs(overrides, history, n, k + 1)
  <2>1. EntryIs(overrides, history, n, k)
    BY DEF k
  <2> QED
    BY <1>1, <1>3, <2>1, SilentCall DEF EntryIs
<1> QED
  BY <1>1, <1>4

\* The loop enters the annotations of the provider it is at, and goes on or
\* stays for the second half of a bridge.
LEMMA EnterKeepsMap ==
  ASSUME TypeOK, Position, MapInv, loading # 0, ~half, outcome = "building",
         overrides' = Entered(Current.pack, Spec0.name), history' = history,
         NextProvider \/ (half' /\ loading' = loading)
  PROVE  MapInv' /\ EntryIs(overrides', history, Spec0.name, Len(history))
<1> DEFINE k == Len(history) - 1
<1>1. /\ k \in Nat /\ k + 1 = Len(history) /\ Current = history[k + 1]
      /\ Offers(Current, Spec0.name)
  BY CurrentCall
<1>2. /\ loading \in 1 .. Len(Current.pack.providers)
      /\ DOMAIN Current.pack.providers = 1 .. Len(Current.pack.providers)
      /\ Len(Current.pack.providers) \in Nat
  BY CurrentCall
<1>3. Current' = Current
  BY DEF Current
<1>4. ASSUME NEW n \in Names
      PROVE  EntryIs(overrides, history, n, IF Unreached(n) THEN k ELSE k + 1)
  BY <1>1 DEF MapInv
<1> HIDE DEF k
<1>5. EntryIs(overrides', history, Spec0.name, k + 1)
  <2>1. Spec0.name \in Names
    BY SpecTyped
  <2>2. \/ EntryIs(overrides, history, Spec0.name, k)
        \/ EntryIs(overrides, history, Spec0.name, k + 1)
    BY <1>4, <2>1
  <2> QED
    BY <1>1, <2>2, EnteredName
<1>6. ASSUME NEW n \in Names
      PROVE  EntryIs(overrides', history, n, IF Unreached(n)' THEN k ELSE k + 1)
  <2>1. CASE n = Spec0.name
    <3>1. ~Unreached(n)'
      <4>1. Current.pack.providers[loading].name = n
        BY <2>1 DEF Spec0
      <4>2. loading' = 0 \/ ~(loading > loading' \/ (loading = loading' /\ ~half'))
        BY <1>2 DEF NextProvider
      <4> QED
        BY <1>2, <1>3, <4>1, <4>2 DEF Unreached
    <3> QED
      BY <1>5, <2>1, <3>1
  <2>2. CASE n # Spec0.name /\ ~Unreached(n)
    <3>1. PICK s \in DOMAIN Current.pack.providers :
            Current.pack.providers[s].name = n /\ s < loading
      BY <1>2, <2>2 DEF Unreached, Spec0
    <3>2. loading' = 0 \/ (loading' \in Nat /\ s < loading')
      BY <1>2, <3>1 DEF NextProvider
    <3>3. ~Unreached(n)'
      BY <1>2, <1>3, <3>1, <3>2 DEF Unreached
    <3>4. EntryIs(overrides, history, n, k + 1)
      BY <1>4, <2>2
    <3> QED
      BY <2>2, <3>3, <3>4, EnteredOther
  <2>3. CASE n # Spec0.name /\ Unreached(n)
    <3>1. EntryIs(overrides, history, n, k)
      BY <1>4, <2>3
    <3>2. CASE loading' = 0
      <4>1. loading = Len(Current.pack.providers)
        BY <1>2, <3>2 DEF NextProvider
      <4>2. EntryIs(overrides, history, n, k + 1)
        BY <1>1, <2>3, <3>1, <4>1, LoopEnds DEF k
      <4> QED
        BY <2>3, <3>2, <4>2, EnteredOther DEF Unreached
    <3>3. CASE loading' # 0
      <4>1. ASSUME NEW s \in DOMAIN Current.pack.providers,
                   Current.pack.providers[s].name = n
            PROVE  s > loading' \/ (s = loading' /\ ~half')
        <5>1. s > loading
          BY <2>3, <4>1 DEF Unreached, Spec0
        <5> QED
          BY <1>2, <3>3, <5>1 DEF NextProvider
      <4>2. Unreached(n)'
        BY <1>3, <3>3, <4>1 DEF Unreached
      <4> QED
        BY <2>3, <3>1, <4>2, EnteredOther
    <3> QED
      BY <3>2, <3>3
  <2> QED
    BY <2>1, <2>2, <2>3
<1> QED
  BY <1>1, <1>5, <1>6 DEF MapInv, k

\* The second half of a bridge enters nothing.
LEMMA HalfKeepsMap ==
  ASSUME TypeOK, Position, MapInv, loading # 0, half, outcome = "building",
         UNCHANGED <<history, overrides>>, NextProvider
  PROVE  MapInv'
<1> DEFINE k == Len(history) - 1
<1>1. k + 1 = Len(history)
  BY CurrentCall
<1>2. /\ loading \in 1 .. Len(Current.pack.providers)
      /\ DOMAIN Current.pack.providers = 1 .. Len(Current.pack.providers)
      /\ Len(Current.pack.providers) \in Nat
  BY CurrentCall
<1>3. Current' = Current
  BY DEF Current
<1>4. ASSUME NEW n \in Names
      PROVE  EntryIs(overrides, history, n, IF Unreached(n) THEN k ELSE k + 1)
  BY <1>1 DEF MapInv
<1> HIDE DEF k
<1>5. ASSUME NEW n \in Names
      PROVE  EntryIs(overrides, history, n, IF Unreached(n)' THEN k ELSE k + 1)
  <2>1. CASE loading' = 0
    <3>1. loading = Len(Current.pack.providers)
      BY <1>2, <2>1 DEF NextProvider
    <3>2. EntryIs(overrides, history, n, k + 1)
      BY <1>1, <1>4, <3>1, LoopEnds DEF k
    <3> QED
      BY <2>1, <3>2 DEF Unreached
  <2>2. CASE loading' # 0
    <3>1. loading' = loading + 1 /\ half' = FALSE
      BY <2>2 DEF NextProvider
    <3>2. Unreached(n)' <=> Unreached(n)
      BY <1>2, <1>3, <3>1 DEF Unreached
    <3> QED
      BY <1>4, <3>2
  <2> QED
    BY <2>1, <2>2
<1> QED
  BY <1>1, <1>5 DEF MapInv, k

\* A call that enters nothing by itself.
LEMMA CallKeepsMap ==
  ASSUME TypeOK, Position, MapInv, NEW c \in Calls, Call(c), UNCHANGED <<overrides, half>>,
         c.op # "overrides",
         outcome' = "building" =>
           \/ loading' = 1 /\ c.op = "pack"
           \/ loading' = 0 /\ \A n \in Names : ~Offers(c, n)
  PROVE  MapInv'
<1> SUFFICES ASSUME outcome' = "building", NEW n \in Names
             PROVE  EntryIs(overrides, history', n,
                            IF Unreached(n)' THEN Len(history') - 1 ELSE Len(history'))
  BY DEF MapInv
<1>1. PICK k : k = Len(history)
  OBVIOUS
<1>2. /\ k \in Nat /\ Len(history') = k + 1 /\ history'[k + 1] = c
      /\ \A i \in 1 .. k : history'[i] = history[i]
      /\ outcome = "building" /\ loading = 0
  BY <1>1, CallTyped
<1>3. EntryIs(overrides, history', n, k)
  <2>1. EntryIs(overrides, history, n, k)
    BY <1>1, <1>2 DEF MapInv, Unreached
  <2> QED
    BY <1>2, <2>1, PrefixInForce DEF EntryIs
<1>4. CASE loading' = 1 /\ c.op = "pack"
  <2>1. Current' = c
    BY <1>2 DEF Current
  <2>2. ~half'
    BY <1>2 DEF Position
  <2>3. \A s \in DOMAIN c.pack.providers : s \in Nat /\ s >= 1
    <3>1. c.pack \in Packs
      BY <1>4 DEF Calls
    <3>2. c.pack.providers \in Seq([name : Names, kind : {"bridge", "other"}])
      BY <3>1, RegistrationAssumption DEF IsPack
    <3>3. DOMAIN c.pack.providers = 1 .. Len(c.pack.providers)
      BY <3>2, LenProperties
    <3> QED
      BY <3>3
  <2>4. Unreached(n)'
    BY <1>4, <2>1, <2>2, <2>3 DEF Unreached
  <2> QED
    BY <1>2, <1>3, <2>4
<1>5. CASE loading' = 0 /\ \A m \in Names : ~Offers(c, m)
  <2>1. ~Annotates(c, n)
    BY <1>5 DEF Annotates, Offers
  <2>2. EntryIs(overrides, history', n, k + 1)
    BY <1>2, <1>3, <2>1, SilentCall DEF EntryIs
  <2> QED
    BY <1>2, <1>5, <2>2 DEF Unreached
<1> QED
  BY <1>4, <1>5

LEMMA StepMap == TypeOK /\ Position /\ MapInv /\ Next => MapInv'
<1> SUFFICES ASSUME TypeOK, Position, MapInv, Next
             PROVE  MapInv'
  OBVIOUS
<1>1. ASSUME NEW map \in OverrideMaps, WithOverrides(map)
      PROVE  MapInv'
  <2> DEFINE c == [op |-> "overrides", map |-> map]
  <2>1. c \in Calls /\ Call(c) /\ overrides' = map /\ loading' = loading
    BY <1>1 DEF Calls, WithOverrides
  <2>2. PICK k : k = Len(history)
    OBVIOUS
  <2>3. /\ k \in Nat /\ Len(history') = k + 1 /\ loading' = 0
        /\ history'[k + 1].op = "overrides" /\ history'[k + 1].map = map
    BY <2>1, <2>2, CallTyped
  <2>4. \A n \in Names : EntryIs(overrides', history', n, k + 1)
    BY <2>1, <2>3, ReplacementInForce DEF EntryIs
  <2> QED
    BY <2>3, <2>4 DEF MapInv, Unreached
<1>2. ASSUME NEW n \in Names, NEW s \in OwnSettings, RegisterProvider(n, s)
      PROVE  MapInv'
  <2> DEFINE c == [op |-> "provider", name |-> n, settings |-> s]
  <2>1. c \in Calls /\ Call(c) /\ c.op = "provider" /\ loading' = 0
        /\ UNCHANGED <<overrides, half>>
    BY <1>2 DEF Calls, RegisterProvider, Call
  <2> HIDE DEF c
  <2> QED
    BY <2>1, CallKeepsMap DEF Offers
<1>3. ASSUME NEW d \in Directions, NEW n \in Names, RegisterBridge(d, n)
      PROVE  MapInv'
  <2> DEFINE c == [op |-> "bridge", direction |-> d, name |-> n]
  <2>1. c \in Calls /\ Call(c) /\ c.op = "bridge" /\ loading' = 0
        /\ UNCHANGED <<overrides, half>>
    BY <1>3 DEF Calls, RegisterBridge, Call
  <2> HIDE DEF c
  <2> QED
    BY <2>1, CallKeepsMap DEF Offers
<1>4. ASSUME NEW p \in Packs, NEW factory \in BOOLEAN, LoadPack(p, factory)
      PROVE  MapInv'
  <2> DEFINE c == [op |-> "pack", pack |-> p, factory |-> factory]
  <2>1. c \in Calls /\ Call(c) /\ c.op = "pack" /\ c.pack = p
        /\ UNCHANGED <<overrides, half>>
    BY <1>4 DEF Calls, LoadPack
  <2>2. p.providers = <<>> => DOMAIN p.providers = {}
    OBVIOUS
  <2> HIDE DEF c
  <2>3. outcome' = "building" =>
          \/ loading' = 1 /\ c.op = "pack"
          \/ loading' = 0 /\ \A m \in Names : ~Offers(c, m)
    BY <1>4, <2>1, <2>2 DEF LoadPack, Offers
  <2> QED
    BY <2>1, <2>3, CallKeepsMap
<1>5. CASE SkipBridge \/ ProviderBuilt \/ MessageBridgeBuilt
  <2>1. ~half
    BY <1>5 DEF SkipBridge, ProviderBuilt, MessageBridgeBuilt, Loading, Position
  <2>2. /\ loading # 0 /\ outcome = "building" /\ history' = history
        /\ overrides' = Entered(Current.pack, Spec0.name)
        /\ NextProvider \/ (half' /\ loading' = loading)
    BY <1>5 DEF SkipBridge, ProviderBuilt, MessageBridgeBuilt, Loading
  <2> QED
    BY <2>1, <2>2, EnterKeepsMap
<1>6. CASE EventBridgeBuilt
  <2>1. /\ loading # 0 /\ half /\ outcome = "building" /\ NextProvider
        /\ UNCHANGED <<history, overrides>>
    BY <1>6 DEF EventBridgeBuilt, Loading
  <2> QED
    BY <2>1, HalfKeepsMap
<1>7. CASE FactoryFails \/ Build
  BY <1>7 DEF FactoryFails, Build, MapInv
<1> QED
  BY <1>1, <1>2, <1>3, <1>4, <1>5, <1>6, <1>7 DEF Next

\* An entry overrides settings as what is in force does.
LEMMA OverriddenMerged ==
  ASSUME NEW settings \in Settings, NEW map, NEW n, NEW calls, NEW k,
         EntryIs(map, calls, n, k)
  PROVE  Overridden(settings, map, n) = Merged(settings, InForce(calls, n, k))
<1>1. CASE n \in DOMAIN map
  BY <1>1 DEF EntryIs, Overridden, Merged
<1>2. CASE n \notin DOMAIN map
  <2>1. InForce(calls, n, k) = NoOverride
    BY <1>2 DEF EntryIs, Present, InForce
  <2>2. Merged(settings, NoOverride) = settings
    BY DEF Merged, NoOverride, Settings
  <2> QED
    BY <1>2, <2>1, <2>2 DEF Overridden
<1> QED
  BY <1>1, <1>2

\* What a registration starts from does not change as the calls go on.
LEMMA StartKept ==
  ASSUME Len(history) \in Nat,
         \A i \in 1 .. Len(history) : history'[i] = history[i],
         NEW r, r.call \in 1 .. Len(history)
  PROVE  StartsFrom(r)' = StartsFrom(r)
<1>1. /\ history'[r.call] = history[r.call]
      /\ InForce(history', r.name, r.call) = InForce(history, r.name, r.call)
  BY PrefixInForce
<1> QED
  BY <1>1 DEF StartsFrom

\* The settings of the registrations there are.
LEMMA SettingsKept ==
  ASSUME TypeOK, InOrder, SettingsInv,
         \A i \in 1 .. Len(history) : history'[i] = history[i],
         NEW i \in DOMAIN providers, providers'[i] = providers[i]
  PROVE  providers'[i].settings = StartsFrom(providers[i])'
<1>1. PICK r : r = providers[i]
  OBVIOUS
<1>2. r.call \in 1 .. Len(history) /\ Len(history) \in Nat
  BY <1>1, LenProperties DEF InOrder, TypeOK
<1>3. StartsFrom(r)' = StartsFrom(r)
  BY <1>2, StartKept
<1>4. r.settings = StartsFrom(r)
  BY <1>1 DEF SettingsInv
<1>5. StartsFrom(providers[i])' = StartsFrom(r)'
  BY <1>1 DEF StartsFrom
<1> QED
  BY <1>1, <1>3, <1>4, <1>5

LEMMA StepSettings == WholeInv /\ MapInv /\ SettingsInv /\ Next => SettingsInv'
<1> SUFFICES ASSUME TypeOK, Position, InOrder, MapInv, SettingsInv, Next
             PROVE  SettingsInv'
  BY DEF WholeInv
<1>0. DOMAIN history = 1 .. Len(history) /\ Len(history) \in Nat
  BY LenProperties DEF TypeOK
<1>1. \A i \in 1 .. Len(history) : history'[i] = history[i]
  <2>1. CASE \E c : Call(c)
    <3>1. PICK c : Call(c)
      BY <2>1
    <3> QED
      BY <1>0, <3>1 DEF Call, TypeOK
  <2>2. CASE history' = history
    BY <2>2
  <2> QED
    BY <2>1, <2>2 DEF Next, WithOverrides, RegisterProvider, RegisterBridge, LoadPack,
       SkipBridge, MessageBridgeBuilt, EventBridgeBuilt, ProviderBuilt, FactoryFails, Build
<1>2. ASSUME NEW r \in Registrations, providers' = Append(providers, r),
             r.settings = StartsFrom(r)'
      PROVE  SettingsInv'
  <2>1. /\ DOMAIN providers' = 1 .. (Len(providers) + 1) /\ Len(providers) \in Nat
        /\ DOMAIN providers = 1 .. Len(providers)
        /\ \A i \in 1 .. Len(providers) : providers'[i] = providers[i]
        /\ providers'[Len(providers) + 1] = r
    BY <1>2, AppendAt DEF TypeOK
  <2> SUFFICES ASSUME NEW i \in 1 .. (Len(providers) + 1)
               PROVE  providers'[i].settings = StartsFrom(providers[i])'
    BY <2>1 DEF SettingsInv
  <2>2. CASE i \in 1 .. Len(providers)
    BY <1>1, <2>1, <2>2, SettingsKept
  <2>3. CASE i = Len(providers) + 1
    <3>1. providers'[i] = r
      BY <2>1, <2>3
    <3>2. StartsFrom(providers[i])' = StartsFrom(r)'
      BY <3>1 DEF StartsFrom
    <3> QED
      BY <1>2, <3>1, <3>2
  <2> QED
    BY <2>1, <2>2, <2>3
<1>3. ASSUME NEW n \in Names, NEW s \in OwnSettings, RegisterProvider(n, s)
      PROVE  SettingsInv'
  <2> DEFINE c == [op |-> "provider", name |-> n, settings |-> s]
  <2>0. PICK r : r = Registration(n, s, Len(history) + 1, 1)
    OBVIOUS
  <2>1. c \in Calls /\ Call(c)
    BY <1>3 DEF Calls, RegisterProvider
  <2>2. history'[Len(history) + 1] = c
    BY <2>1, CallTyped
  <2>3. r \in Registrations
    BY <1>0, <2>0, RegistrationAssumption DEF Registration, Registrations, Settings
  <2>4. r.settings = StartsFrom(r)'
    BY <2>0, <2>2 DEF Registration, StartsFrom
  <2>5. providers' = Append(providers, r)
    BY <1>3, <2>0 DEF RegisterProvider
  <2> QED
    BY <1>2, <2>3, <2>4, <2>5
<1>4. CASE ProviderBuilt
  <2>0. PICK settings, r :
          /\ settings = Overridden(Unset, overrides', Spec0.name)
          /\ r = Registration(Spec0.name, settings, Len(history), loading)
    OBVIOUS
  <2>1. /\ loading # 0 /\ outcome = "building" /\ ~half /\ NextProvider
        /\ overrides' = Entered(Current.pack, Spec0.name) /\ history' = history
        /\ providers' = Append(providers, r)
    BY <1>4, <2>0 DEF ProviderBuilt, Loading, Position
  <2>2. Spec0.name \in Names /\ Current.op = "pack" /\ Current.pack \in Packs
    BY <2>1, SpecTyped
  <2>3. OverridesTyped(overrides')
    BY <2>1, <2>2, EnteredTyped DEF TypeOK
  <2>4. settings \in Settings
    BY <2>0, <2>2, <2>3, OverriddenTyped, UnsetTyped
  <2>5. r \in Registrations
    BY <1>0, <2>0, <2>2, <2>4 DEF Registration, Registrations, TypeOK
  <2>6. settings = Merged(Unset, InForce(history, Spec0.name, Len(history)))
    BY <2>0, <2>1, EnterKeepsMap, OverriddenMerged, UnsetTyped
  <2>7. r.settings = StartsFrom(r)'
    BY <2>0, <2>1, <2>2, <2>6 DEF Registration, StartsFrom, Current
  <2> QED
    BY <1>2, <2>1, <2>5, <2>7
<1>5. CASE providers' = providers
  BY <1>1, <1>5, SettingsKept DEF SettingsInv
<1> QED
  BY <1>3, <1>4, <1>5
     DEF Next, WithOverrides, RegisterBridge, LoadPack, SkipBridge,
         MessageBridgeBuilt, EventBridgeBuilt, FactoryFails, Build

\* The bus has what is in force, and keeps it: nothing comes after build.
LEMMA StepPrecedence ==
  WholeInv /\ MapInv /\ SettingsInv /\ OverridePrecedence /\ Next => OverridePrecedence'
<1> SUFFICES ASSUME TypeOK, Position, InOrder, MapInv, SettingsInv, Next, Build
             PROVE  OverridePrecedence'
  BY DEF WholeInv, Next, OverridePrecedence, Call, WithOverrides, RegisterProvider,
     RegisterBridge, LoadPack, SkipBridge, MessageBridgeBuilt, EventBridgeBuilt,
     ProviderBuilt, FactoryFails, AtFactory, Loading
<1>1. outcome = "building" /\ loading = 0 /\ history' = history
      /\ DOMAIN bus' = DOMAIN providers
  BY DEF Build
<1> SUFFICES ASSUME NEW i \in DOMAIN providers
             PROVE  bus'[i].settings =
                      Merged(StartsFrom(bus[i])',
                             InForce(history', bus'[i].name, Len(history')))
  BY <1>1 DEF OverridePrecedence
<1>2. PICK r : r = providers[i]
  OBVIOUS
<1>3. r \in Registrations
  BY <1>2, ElementOfSeq, LenProperties DEF TypeOK
<1>4. PICK settings : settings = Overridden(r.settings, overrides, r.name)
  OBVIOUS
<1>5. bus'[i] = [r EXCEPT !.settings = settings]
  BY <1>2, <1>4 DEF Build
<1>6. /\ bus'[i].settings = settings /\ bus'[i].name = r.name
      /\ bus'[i].call = r.call
  BY <1>3, <1>5 DEF Registrations
<1>7. StartsFrom(bus[i])' = r.settings
  <2>1. r.settings = StartsFrom(r)
    BY <1>2 DEF SettingsInv
  <2>2. StartsFrom(bus[i])' = StartsFrom(r)
    BY <1>1, <1>6 DEF StartsFrom
  <2> QED
    BY <2>1, <2>2
<1>8. EntryIs(overrides, history, r.name, Len(history))
  BY <1>1, <1>3 DEF MapInv, Unreached, Registrations
<1>9. settings = Merged(r.settings, InForce(history, r.name, Len(history)))
  BY <1>3, <1>4, <1>8, OverriddenMerged DEF Registrations
<1> QED
  BY <1>1, <1>6, <1>7, <1>9

---------------------------------------------------------------------------
(* The theorems *)

LEMMA InitWhole == Init => WholeInv
<1> SUFFICES ASSUME Init PROVE WholeInv
  OBVIOUS
<1>1. TypeOK
  <2>1. OverridesTyped(overrides)
    BY DEF Init, OverridesTyped
  <2>2. bridges \in [Directions -> [Names -> Nat]]
    BY DEF Init
  <2>3. history \in Seq(Calls) /\ providers \in Seq(Registrations) /\ bus \in Seq(Registrations)
    BY EmptySeq DEF Init
  <2> QED
    BY <2>1, <2>2, <2>3 DEF Init, TypeOK
<1>2. Position /\ InOrder /\ WholeSoFar /\ HalfBridge /\ BusCopies
  BY DEF Init, Position, InOrder, WholeSoFar, HalfBridge, BusCopies
<1> QED
  BY <1>1, <1>2 DEF WholeInv

LEMMA StepInv == WholeInv /\ [Next]_vars => WholeInv'
<1>1. CASE Next
  BY <1>1, StepTypeOK, StepPosition, StepInOrder, StepWhole DEF WholeInv
<1>2. CASE UNCHANGED vars
  <2>1. TypeOK => TypeOK'
    BY <1>2 DEF vars, TypeOK, OverridesTyped
  <2>2. Position /\ HalfBridge => Position' /\ HalfBridge'
    BY <1>2 DEF vars, Position, HalfBridge, Current, Spec0
  <2>3. InOrder /\ BusCopies => InOrder' /\ BusCopies'
    BY <1>2 DEF vars, InOrder, Precedes, BusCopies
  <2>4. WholeSoFar => WholeSoFar'
    BY <1>2 DEF vars, WholeSoFar, Past, EntersAs
  <2> QED
    BY <2>1, <2>2, <2>3, <2>4 DEF WholeInv
<1> QED
  BY <1>1, <1>2

\* Every registry keeps its type through any sequence of builder calls.
THEOREM TypeCorrect == Spec => []TypeOK
<1>1. WholeInv => TypeOK
  BY DEF WholeInv
<1> QED
  BY <1>1, InitWhole, StepInv, PTL DEF Spec

\* The bus that is built holds every provider of every pack that was loaded,
\* in the order of the calls and of the providers in each pack: no builder
\* with half a pack in it can be built (register_from_pack_dir consumes self).
THEOREM PacksEnterWhole == Spec => []PackEntersWhole
<1>1. WholeInv => PackEntersWhole
  <2> SUFFICES ASSUME WholeInv, outcome = "built"
               PROVE  /\ \A i, j \in DOMAIN bus : i < j => Precedes(bus[i], bus[j])
                      /\ \A k \in DOMAIN history : history[k].op = "pack" =>
                           \A s \in DOMAIN history[k].pack.providers : EntersAs(bus, k, s)
    BY DEF PackEntersWhole
  <2>1. /\ DOMAIN bus = DOMAIN providers
        /\ \A i \in DOMAIN bus : /\ bus[i].call = providers[i].call
                                 /\ bus[i].position = providers[i].position
    BY DEF WholeInv, BusCopies
  <2>2. loading = 0
    BY DEF WholeInv, Position
  <2>3. \A i, j \in DOMAIN bus : i < j => Precedes(bus[i], bus[j])
    BY <2>1 DEF WholeInv, InOrder, Precedes
  <2>4. ASSUME NEW k \in DOMAIN history, history[k].op = "pack",
               NEW s \in DOMAIN history[k].pack.providers
        PROVE  EntersAs(bus, k, s)
    <3>1. EntersAs(providers, k, s)
      BY <2>2, <2>4 DEF WholeInv, WholeSoFar, Past
    <3> QED
      BY <2>1, <3>1 DEF EntersAs
  <2> QED
    BY <2>3, <2>4
<1> QED
  BY <1>1, InitWhole, StepInv, PTL DEF Spec

\* OverridePrecedence speaks of the bus alone; it needs what is true of the
\* map and the registrations before the bus is built.
PrecedenceInv == WholeInv /\ MapInv /\ SettingsInv /\ OverridePrecedence

LEMMA InitPrecedence == Init => PrecedenceInv
<1> SUFFICES ASSUME Init PROVE PrecedenceInv
  OBVIOUS
<1>1. Replacements(history, 0) = {}
  BY DEF Replacements
<1>2. LastReplaced(history, 0) = 0
  BY <1>1 DEF LastReplaced
<1>3. \A n : ~Present(history, n, 0)
  BY <1>2 DEF Present, Given, Annotating
<1>4. MapInv
  <2>1. DOMAIN overrides = {} /\ loading = 0 /\ Len(history) = 0
    BY DEF Init
  <2> QED
    BY <1>3, <2>1 DEF MapInv, EntryIs, Unreached
<1>5. SettingsInv /\ OverridePrecedence
  BY DEF Init, SettingsInv, OverridePrecedence
<1> QED
  BY <1>4, <1>5, InitWhole DEF PrecedenceInv

LEMMA StepPrecedenceInv == PrecedenceInv /\ [Next]_vars => PrecedenceInv'
<1>1. CASE Next
  BY <1>1, StepInv, StepMap, StepSettings, StepPrecedence DEF PrecedenceInv, WholeInv
<1>2. CASE UNCHANGED vars
  <2>1. MapInv => MapInv'
    BY <1>2 DEF vars, MapInv, Unreached, Current
  <2>2. SettingsInv => SettingsInv'
    BY <1>2 DEF vars, SettingsInv, StartsFrom
  <2>3. OverridePrecedence => OverridePrecedence'
    BY <1>2 DEF vars, OverridePrecedence, StartsFrom
  <2> QED
    BY <1>2, <2>1, <2>2, <2>3, StepInv DEF PrecedenceInv
<1> QED
  BY <1>1, <1>2

\* Whatever order a builder is called in, with packs that fail, repeat names
\* or skip bridges in between, every provider of the bus has what the last
\* with_overrides or the first pack after it says of its name (build with
\* register_from_pack_dir and with_overrides).
THEOREM OverridesInForce == Spec => []OverridePrecedence
<1>1. PrecedenceInv => OverridePrecedence
  BY DEF PrecedenceInv
<1> QED
  BY <1>1, InitPrecedence, StepPrecedenceInv, PTL DEF Spec

---------------------------------------------------------------------------
(* The validators of a pack.  Least elements of sets of natural numbers    *)
(* take the place of induction.                                            *)

LEMMA LeastOf ==
  ASSUME NEW S, S \subseteq Nat, S # {}
  PROVE  \E x \in S : \A y \in S : x <= y
<1>1. PICK x \in S : \A y \in S : <<y, x>> \notin OpToRel(<, Nat)
  BY NatLessThanWellFounded, WFMin
<1>2. ASSUME NEW y \in S, y < x
      PROVE  FALSE
  <2>1. <<y, x>> \in Nat \X Nat /\ <<y, x>>[1] < <<y, x>>[2]
    BY <1>2, SMT
  <2>2. <<y, x>> \in OpToRel(<, Nat)
    BY <2>1, Zenon DEF OpToRel
  <2> QED
    BY <1>1, <2>2
<1> QED
  BY <1>2

---------------------------------------------------------------------------
(* The lists the validators build *)

\* What is in two lists put together.
LEMMA ConcatHolds ==
  ASSUME NEW S, NEW s \in Seq(S), NEW t \in Seq(S)
  PROVE  s \o t \in Seq(S) /\ ToSet(s \o t) = ToSet(s) \cup ToSet(t)
<1>1. /\ s \o t \in Seq(S)
      /\ Len(s \o t) = Len(s) + Len(t)
      /\ \A i \in 1 .. Len(s) + Len(t) :
           (s \o t)[i] = IF i <= Len(s) THEN s[i] ELSE t[i - Len(s)]
  BY ConcatProperties
<1>2. /\ DOMAIN s = 1 .. Len(s) /\ Len(s) \in Nat
      /\ DOMAIN t = 1 .. Len(t) /\ Len(t) \in Nat
      /\ DOMAIN (s \o t) = 1 .. Len(s) + Len(t)
  BY <1>1, LenProperties
<1> DEFINE u == s \o t
<1>3. \A i \in DOMAIN u : u[i] \in ToSet(s) \cup ToSet(t)
  <2> SUFFICES ASSUME NEW i \in DOMAIN u
               PROVE  u[i] \in ToSet(s) \cup ToSet(t)
    OBVIOUS
  <2>1. CASE i <= Len(s)
    <3>1. i \in DOMAIN s /\ u[i] = s[i]
      BY <1>1, <1>2, <2>1
    <3> QED
      BY <3>1 DEF ToSet
  <2>2. CASE ~(i <= Len(s))
    <3>1. i - Len(s) \in DOMAIN t /\ u[i] = t[i - Len(s)]
      BY <1>1, <1>2, <2>2
    <3> QED
      BY <3>1 DEF ToSet
  <2> QED
    BY <2>1, <2>2
<1>4. \A i \in DOMAIN s : i \in DOMAIN u /\ u[i] = s[i]
  BY <1>1, <1>2
<1>5. \A i \in DOMAIN t : i + Len(s) \in DOMAIN u /\ u[i + Len(s)] = t[i]
  BY <1>1, <1>2
<1> HIDE DEF u
<1>6. ToSet(u) = ToSet(s) \cup ToSet(t)
  BY <1>3, <1>4, <1>5 DEF ToSet
<1> QED
  BY <1>1, <1>6 DEF u

\* What is in a list of at most one entry.
LEMMA IfHolds ==
  ASSUME NEW S, NEW cond, NEW d \in S
  PROVE  If(cond, d) \in Seq(S) /\ ToSet(If(cond, d)) = (IF cond THEN {d} ELSE {})
<1>1. CASE cond
  <2>1. If(cond, d) = <<d>>
    BY <1>1 DEF If
  <2>2. <<d>> \in Seq(S) /\ DOMAIN <<d>> = {1} /\ <<d>>[1] = d
    OBVIOUS
  <2>3. ToSet(<<d>>) = {d}
    BY <2>2 DEF ToSet
  <2> QED
    BY <1>1, <2>1, <2>2, <2>3
<1>2. CASE ~cond
  <2>1. If(cond, d) = <<>> /\ <<>> \in Seq(S) /\ DOMAIN <<>> = {}
    BY <1>2 DEF If
  <2> QED
    BY <1>2, <2>1 DEF ToSet
<1> QED
  BY <1>1, <1>2

\* The concatenation of a list of lists, front to back.
IsFlattening(f, seqs) ==
  f = [i \in 1 .. Len(seqs) |-> IF i = 1 THEN seqs[i] ELSE f[i - 1] \o seqs[i]]

LEMMA FlatteningExists ==
  ASSUME NEW seqs, Len(seqs) \in Nat
  PROVE  \E f : IsFlattening(f, seqs)
<1> DEFINE Solves(f, m) ==
             f = [k \in 1 .. m |-> IF k = 1 THEN seqs[k] ELSE f[k - 1] \o seqs[k]]
           Bad == {m \in Nat : ~\E f : Solves(f, m)}
<1>1. Bad = {}
  <2> SUFFICES ASSUME Bad # {}
               PROVE  FALSE
    OBVIOUS
  <2>1. PICK m \in Bad : \A e \in Bad : m <= e
    <3>1. Bad \subseteq Nat
      OBVIOUS
    <3> HIDE DEF Bad
    <3> QED
      BY <3>1, LeastOf
  <2>2. CASE m = 0
    <3>1. Solves([k \in 1 .. 0 |-> seqs[k]], 0)
      OBVIOUS
    <3> QED
      BY <2>2, <3>1
  <2>3. CASE m # 0
    <3>0. m \in Nat
      OBVIOUS
    <3>1. m - 1 \in Nat /\ m - 1 \notin Bad
      <4> HIDE DEF Bad
      <4> QED
        BY <2>1, <2>3, <3>0
    <3>2. PICK f : Solves(f, m - 1)
      BY <3>1
    <3> DEFINE last == IF m = 1 THEN seqs[m] ELSE f[m - 1] \o seqs[m]
               g == [k \in 1 .. m |-> IF k = m THEN last ELSE f[k]]
    <3>3. \A k \in 1 .. (m - 1) : g[k] = f[k]
      BY <3>0
    <3>4. ASSUME NEW k \in 1 .. m
          PROVE  g[k] = IF k = 1 THEN seqs[k] ELSE g[k - 1] \o seqs[k]
      <4>1. CASE k = m
        <5>1. g[k] = last
          BY <4>1
        <5>2. k # 1 => g[k - 1] = f[k - 1]
          BY <3>0, <3>3, <4>1
        <5> QED
          BY <4>1, <5>1, <5>2
      <4>2. CASE k # m
        <5>1. k \in 1 .. (m - 1)
          BY <3>0, <4>2
        <5>2. f[k] = IF k = 1 THEN seqs[k] ELSE f[k - 1] \o seqs[k]
          BY <3>2, <5>1
        <5>3. k # 1 => g[k - 1] = f[k - 1]
          BY <3>0, <3>3, <5>1
        <5> QED
          BY <3>3, <5>1, <5>2, <5>3
      <4> QED
        BY <4>1, <4>2
    <3>5. Solves(g, m)
      <4>1. g = [k \in 1 .. m |-> g[k]]
        OBVIOUS
      <4> HIDE DEF g, last
      <4>2. [k \in 1 .. m |-> g[k]]
              = [k \in 1 .. m |-> IF k = 1 THEN seqs[k] ELSE g[k - 1] \o seqs[k]]
        BY <3>4
      <4> QED
        BY <4>1, <4>2
    <3> QED
      BY <3>5
  <2> QED
    BY <2>2, <2>3
<1> QED
  BY <1>1 DEF IsFlattening

\* What is in a flattened list.
LEMMA FlattenHolds ==
  ASSUME NEW S, NEW seqs, Len(seqs) \in Nat, DOMAIN seqs = 1 .. Len(seqs),
         \A i \in DOMAIN seqs : seqs[i] \in Seq(S),
         Len(seqs) = 0 => seqs = <<>>
  PROVE  /\ FlattenSeq(seqs) \in Seq(S)
         /\ ToSet(FlattenSeq(seqs)) = UNION {ToSet(seqs[i]) : i \in DOMAIN seqs}
<1> DEFINE n == Len(seqs)
           F == CHOOSE f : IsFlattening(f, seqs)
           Up(k) == UNION {ToSet(seqs[i]) : i \in 1 .. k}
           Holds(k) == F[k] \in Seq(S) /\ ToSet(F[k]) = Up(k)
           Bad == {k \in 1 .. n : ~Holds(k)}
<1>1. CASE n = 0
  <2>1. FlattenSeq(seqs) = <<>>
    BY <1>1 DEF FlattenSeq
  <2>2. <<>> \in Seq(S) /\ DOMAIN <<>> = {}
    OBVIOUS
  <2> QED
    BY <1>1, <2>1, <2>2 DEF ToSet
<1>2. CASE n # 0
  <2>1. FlattenSeq(seqs) = F[n]
    BY <1>2 DEF FlattenSeq, IsFlattening
  <2>2. IsFlattening(F, seqs)
    BY FlatteningExists
  <2> HIDE DEF F
  <2>3. \A k \in 1 .. n : F[k] = IF k = 1 THEN seqs[k] ELSE F[k - 1] \o seqs[k]
    BY <2>2 DEF IsFlattening
  <2>4. Bad = {}
    <3> SUFFICES ASSUME Bad # {}
                 PROVE  FALSE
      OBVIOUS
    <3>1. PICK k \in Bad : \A e \in Bad : k <= e
      <4>1. Bad \subseteq Nat
        OBVIOUS
      <4> HIDE DEF Bad
      <4> QED
        BY <4>1, LeastOf
    <3>2. k \in 1 .. n /\ seqs[k] \in Seq(S)
      OBVIOUS
    <3>3. CASE k = 1
      <4>1. F[k] = seqs[1] /\ 1 .. 1 = {1}
        BY <2>3, <3>2, <3>3
      <4>2. Holds(k)
        BY <3>2, <3>3, <4>1
      <4> QED
        BY <4>2
    <3>4. CASE k # 1
      <4>1. k - 1 \in 1 .. n /\ ~(k <= k - 1)
        BY <3>2, <3>4
      <4>2. Holds(k - 1)
        <5>1. k - 1 \notin Bad
          <6> HIDE DEF Bad
          <6> QED
            BY <3>1, <4>1
        <5> QED
          BY <4>1, <5>1
      <4>3. F[k] = F[k - 1] \o seqs[k]
        BY <2>3, <3>2, <3>4
      <4>4. F[k] \in Seq(S) /\ ToSet(F[k]) = ToSet(F[k - 1]) \cup ToSet(seqs[k])
        BY <3>2, <4>2, <4>3, ConcatHolds
      <4>5. 1 .. k = (1 .. (k - 1)) \cup {k}
        BY <3>2, <3>4
      <4>6. Up(k) = Up(k - 1) \cup ToSet(seqs[k])
        BY <4>5
      <4> QED
        BY <4>2, <4>4, <4>6
    <3> QED
      BY <3>3, <3>4
  <2>5. Holds(n)
    <3>1. n \in 1 .. n
      BY <1>2
    <3>2. n \notin Bad
      <4> HIDE DEF Bad
      <4> QED
        BY <2>4
    <3> HIDE DEF n, Holds
    <3> QED
      BY <3>1, <3>2
  <2> QED
    BY <2>1, <2>5
<1> QED
  BY <1>1, <1>2

\* The same where the list is built entry by entry from another.
LEMMA FlattenEach ==
  ASSUME NEW S, NEW T, NEW list \in Seq(T), NEW g,
         g = [i \in DOMAIN list |-> g[i]],
         \A i \in DOMAIN list : g[i] \in Seq(S)
  PROVE  /\ FlattenSeq(g) \in Seq(S)
         /\ \A d : d \in ToSet(FlattenSeq(g)) <=> \E i \in DOMAIN list : d \in ToSet(g[i])
<1>1. DOMAIN list = 1 .. Len(list) /\ Len(list) \in Nat
  BY LenProperties
<1>2. DOMAIN g = 1 .. Len(list)
  BY <1>1
<1>3. g \in Seq(Seq(S))
  BY <1>1, <1>2
<1>4. Len(g) = Len(list)
  BY <1>1, <1>2, <1>3, LenProperties
<1>5. Len(g) = 0 => g = <<>>
  BY <1>3, EmptySeq
<1>6. /\ FlattenSeq(g) \in Seq(S)
      /\ ToSet(FlattenSeq(g)) = UNION {ToSet(g[i]) : i \in DOMAIN g}
  BY <1>1, <1>2, <1>4, <1>5, FlattenHolds
<1> QED
  BY <1>1, <1>2, <1>6

---------------------------------------------------------------------------
(* What the validators read from a manifest *)

\* The entry flow ids as far as i, each once.
IsSeen(f, all) ==
  f = [i \in 0 .. Len(all) |->
         IF i = 0 THEN <<>> ELSE f[i - 1] \o If(~Contains(f[i - 1], all[i]), all[i])]

LEMMA SeenExists ==
  ASSUME NEW all, Len(all) \in Nat
  PROVE  \E f : IsSeen(f, all)
<1> DEFINE Then(s, k) == s \o If(~Contains(s, all[k]), all[k])
           Solves(f, m) ==
             f = [k \in 0 .. m |-> IF k = 0 THEN <<>> ELSE Then(f[k - 1], k)]
           Bad == {m \in Nat : ~\E f : Solves(f, m)}
<1>1. Bad = {}
  <2> HIDE DEF Then
  <2> SUFFICES ASSUME Bad # {}
               PROVE  FALSE
    OBVIOUS
  <2>1. PICK m \in Bad : \A e \in Bad : m <= e
    <3>1. Bad \subseteq Nat
      OBVIOUS
    <3> HIDE DEF Bad
    <3> QED
      BY <3>1, LeastOf
  <2>2. CASE m = 0
    <3>1. Solves([k \in 0 .. 0 |-> <<>>], 0)
      OBVIOUS
    <3> QED
      BY <2>2, <3>1
  <2>3. CASE m # 0
    <3>0. m \in Nat
      OBVIOUS
    <3>1. m - 1 \in Nat /\ m - 1 \notin Bad
      <4> HIDE DEF Bad
      <4> QED
        BY <2>1, <2>3, <3>0
    <3>2. PICK f : Solves(f, m - 1)
      BY <3>1
    <3> DEFINE last == Then(f[m - 1], m)
               g == [k \in 0 .. m |-> IF k = m THEN last ELSE f[k]]
    <3>3. \A k \in 0 .. (m - 1) : g[k] = f[k]
      BY <3>0
    <3>4. ASSUME NEW k \in 0 .. m
          PROVE  g[k] = IF k = 0 THEN <<>> ELSE Then(g[k - 1], k)
      <4>1. CASE k = m
        <5>1. g[k] = last
          BY <4>1
        <5>2. g[k - 1] = f[k - 1]
          BY <2>3, <3>0, <3>3, <4>1
        <5> QED
          BY <2>3, <4>1, <5>1, <5>2
      <4>2. CASE k # m
        <5>1. k \in 0 .. (m - 1)
          BY <3>0, <4>2
        <5>2. f[k] = IF k = 0 THEN <<>> ELSE Then(f[k - 1], k)
          BY <3>2, <5>1
        <5>3. k # 0 => g[k - 1] = f[k - 1]
          BY <3>0, <3>3, <5>1
        <5> QED
          BY <3>3, <5>1, <5>2, <5>3
      <4> QED
        BY <4>1, <4>2
    <3>5. Solves(g, m)
      <4>1. g = [k \in 0 .. m |-> g[k]]
        OBVIOUS
      <4> HIDE DEF g, last
      <4>2. [k \in 0 .. m |-> g[k]]
              = [k \in 0 .. m |-> IF k = 0 THEN <<>> ELSE Then(g[k - 1], k)]
        BY <3>4
      <4> QED
        BY <4>1, <4>2
    <3> QED
      BY <3>5
  <2> QED
    BY <2>2, <2>3
<1>2. \E f : Solves(f, Len(all))
  BY <1>1
<1> QED
  BY <1>2 DEF IsSeen

LEMMA ManifestTyped ==
  ASSUME NEW m \in Manifests
  PROVE  IsManifest(m)
BY ValidatorsAssumption

LEMMA EntryFlowsTyped ==
  ASSUME NEW m \in Manifests
  PROVE  EntryFlows(m) \in Seq(FlowIds)
<1> DEFINE lists == [i \in DOMAIN m.extensions |->
                       m.extensions[i].meta \o m.extensions[i].top]
           all == FlattenSeq(lists)
           F == CHOOSE f : IsSeen(f, all)
           Bad == {k \in 0 .. Len(all) : F[k] \notin Seq(FlowIds)}
<1>1. m.extensions \in Seq(Extensions)
  BY ManifestTyped DEF IsManifest
<1>2. \A i \in DOMAIN m.extensions : lists[i] \in Seq(FlowIds)
  <2> SUFFICES ASSUME NEW i \in DOMAIN m.extensions
               PROVE  m.extensions[i].meta \o m.extensions[i].top \in Seq(FlowIds)
    OBVIOUS
  <2>1. m.extensions[i] \in Extensions
    BY <1>1, ElementOfSeq, LenProperties
  <2>2. m.extensions[i].meta \in Seq(FlowIds) /\ m.extensions[i].top \in Seq(FlowIds)
    BY <2>1 DEF Extensions
  <2> QED
    BY <2>2, ConcatProperties
<1>3. all \in Seq(FlowIds)
  <2>1. lists = [i \in DOMAIN m.extensions |-> lists[i]]
    OBVIOUS
  <2> HIDE DEF lists
  <2> QED
    BY <1>1, <1>2, <2>1, FlattenEach
<1>4. EntryFlows(m) = F[Len(all)]
  BY DEF EntryFlows, IsSeen
<1> HIDE DEF lists
<1>5. Len(all) \in Nat /\ DOMAIN all = 1 .. Len(all)
  BY <1>3, LenProperties
<1> HIDE DEF all
<1>6. IsSeen(F, all)
  BY <1>5, SeenExists
<1> HIDE DEF F
<1>7. Bad = {}
  <2> SUFFICES ASSUME Bad # {}
               PROVE  FALSE
    OBVIOUS
  <2>1. PICK k \in Bad : \A e \in Bad : k <= e
    <3>1. Bad \subseteq Nat
      BY <1>5
    <3> HIDE DEF Bad
    <3> QED
      BY <3>1, LeastOf
  <2>2. k # 0
    <3>1. F[0] = <<>>
      BY <1>5, <1>6 DEF IsSeen
    <3>2. F[0] \in Seq(FlowIds)
      BY <3>1
    <3> QED
      BY <3>2
  <2>3. k \in 1 .. Len(all) /\ k - 1 \in 0 .. Len(all) /\ ~(k <= k - 1)
    BY <1>5, <2>2
  <2>4. F[k - 1] \in Seq(FlowIds)
    <3>1. k - 1 \notin Bad
      <4> HIDE DEF Bad
      <4> QED
        BY <2>1, <2>3
    <3> QED
      BY <2>3, <3>1
  <2>5. F[k] = F[k - 1] \o If(~Contains(F[k - 1], all[k]), all[k])
    BY <1>6, <2>2, <2>3 DEF IsSeen
  <2>6. all[k] \in FlowIds
    BY <1>3, <1>5, <2>3, ElementOfSeq
  <2>7. If(~Contains(F[k - 1], all[k]), all[k]) \in Seq(FlowIds)
    BY <2>6, IfHolds
  <2>8. F[k] \in Seq(FlowIds)
    BY <2>4, <2>5, <2>7, ConcatHolds
  <2> QED
    BY <2>8
<1> QED
  BY <1>4, <1>5, <1>7

LEMMA FirstTextIs ==
  ASSUME NEW S, NEW texts \in Seq(S)
  PROVE  FirstText(texts) \in S \cup {Absent}
<1> DEFINE there == {i \in DOMAIN texts : texts[i] # Absent}
<1>1. CASE there = {}
  BY <1>1 DEF FirstText
<1>2. CASE there # {}
  <2>1. DOMAIN texts \subseteq Nat
    BY LenProperties
  <2>2. there \subseteq Nat
    BY <2>1
  <2>3. there \subseteq DOMAIN texts
    OBVIOUS
  <2>4. FirstText(texts) = texts[Min(there)]
    BY <1>2 DEF FirstText
  <2> HIDE DEF there
  <2>5. Min(there) \in there
    BY <1>2, <2>2, LeastOf DEF Min
  <2> QED
    BY <2>3, <2>4, <2>5, ElementOfSeq, LenProperties
<1> QED
  BY <1>1, <1>2

LEMMA TopicTyped ==
  ASSUME NEW m \in Manifests
  PROVE  Topic(m) \in Seq(Segments) \cup {Absent}
<1> DEFINE T == Seq(Segments) \cup {Absent}
           lists == [i \in DOMAIN m.extensions |-> m.extensions[i].topics]
<1>1. m.extensions \in Seq(Extensions)
  BY ManifestTyped DEF IsManifest
<1>2. \A i \in DOMAIN m.extensions : lists[i] \in Seq(T)
  <2> SUFFICES ASSUME NEW i \in DOMAIN m.extensions
               PROVE  m.extensions[i].topics \in Seq(T)
    OBVIOUS
  <2>1. m.extensions[i] \in Extensions
    BY <1>1, ElementOfSeq, LenProperties
  <2>2. m.extensions[i].topics \in [1 .. 2 -> T]
    BY <2>1 DEF Extensions
  <2> HIDE DEF T
  <2>3. Seq(T) = UNION {[1 .. n -> T] : n \in Nat}
    BY SeqDef
  <2>4. \A f \in [1 .. 2 -> T] : f \in Seq(T)
    BY <2>3, 2 \in Nat, Zenon
  <2> QED
    BY <2>2, <2>4
<1>3. FlattenSeq(lists) \in Seq(T)
  <2>1. lists = [i \in DOMAIN m.extensions |-> lists[i]]
    OBVIOUS
  <2> HIDE DEF lists, T
  <2> QED
    BY <1>1, <1>2, <2>1, FlattenEach
<1>4. Topic(m) = FirstText(FlattenSeq(lists))
  BY DEF Topic
<1> HIDE DEF lists
<1> QED
  BY <1>3, <1>4, FirstTextIs

---------------------------------------------------------------------------
(* What each validator finds *)

Codes ==
  {"EVT_PROVIDER_SCHEMA_EMPTY", "EVT_PROVIDER_NO_OPS", "EVT_INVALID_TOPIC",
   "EVT_SUSPECT_TYPE_FORMAT", "EVT_ENTRY_FLOW_MISSING", "EVT_HANDLER_FLOW_MISSING",
   "EVT_SCHEMA_MISSING"}

Diagnostics ==
  [severity : {"error", "warn"}, code : Codes,
   about : Nat \cup {"topic", "type"} \cup FlowIds]

LEMMA DiagnosticTyped ==
  ASSUME NEW severity \in {"error", "warn"}, NEW code \in Codes,
         NEW about \in Nat \cup {"topic", "type"} \cup FlowIds
  PROVE  Diagnostic(severity, code, about) \in Diagnostics
BY DEF Diagnostic, Diagnostics

\* Two diagnostics at most, each where its condition holds.
LEMMA TwoIfs ==
  ASSUME NEW c, NEW d \in Diagnostics, NEW e, NEW f \in Diagnostics
  PROVE  /\ If(c, d) \o If(e, f) \in Seq(Diagnostics)
         /\ ToSet(If(c, d) \o If(e, f))
              = (IF c THEN {d} ELSE {}) \cup (IF e THEN {f} ELSE {})
<1>1. /\ If(c, d) \in Seq(Diagnostics) /\ ToSet(If(c, d)) = IF c THEN {d} ELSE {}
      /\ If(e, f) \in Seq(Diagnostics) /\ ToSet(If(e, f)) = IF e THEN {f} ELSE {}
  BY IfHolds
<1>2. /\ If(c, d) \o If(e, f) \in Seq(Diagnostics)
      /\ ToSet(If(c, d) \o If(e, f)) = ToSet(If(c, d)) \cup ToSet(If(e, f))
  BY <1>1, ConcatHolds
<1> QED
  BY <1>1, <1>2

LEMMA ProvidersAre ==
  ASSUME NEW m \in Manifests
  PROVE  /\ m.providers \in Seq(ProviderDecls)
         /\ DOMAIN m.providers \subseteq Nat
         /\ \A i \in DOMAIN m.providers : m.providers[i] \in ProviderDecls
<1>1. m.providers \in Seq(ProviderDecls)
  BY ManifestTyped DEF IsManifest
<1> QED
  BY <1>1, ElementOfSeq, LenProperties

SchemaEmpty(i) == Diagnostic("error", "EVT_PROVIDER_SCHEMA_EMPTY", i)
NoOps(i) == Diagnostic("warn", "EVT_PROVIDER_NO_OPS", i)

LEMMA ProviderDeclFinds ==
  ASSUME NEW m \in Manifests
  PROVE  /\ ProviderDeclFindings(m) \in Seq(Diagnostics)
         /\ \A d : d \in ToSet(ProviderDeclFindings(m)) <=>
              \E i \in DOMAIN m.providers :
                \/ m.providers[i].config = "blank" /\ d = SchemaEmpty(i)
                \/ ~m.providers[i].ops /\ d = NoOps(i)
<1> DEFINE g == [i \in DOMAIN m.providers |->
                  If(m.providers[i].config = "blank",
                     Diagnostic("error", "EVT_PROVIDER_SCHEMA_EMPTY", i))
                  \o If(~m.providers[i].ops, Diagnostic("warn", "EVT_PROVIDER_NO_OPS", i))]
<1>1. ASSUME NEW i \in DOMAIN m.providers
      PROVE  /\ g[i] \in Seq(Diagnostics)
             /\ \A d : d \in ToSet(g[i]) <=>
                  \/ m.providers[i].config = "blank" /\ d = SchemaEmpty(i)
                  \/ ~m.providers[i].ops /\ d = NoOps(i)
  <2>1. i \in Nat
    BY ProvidersAre
  <2> DEFINE c == m.providers[i].config = "blank"
             e == ~m.providers[i].ops
  <2>2. SchemaEmpty(i) \in Diagnostics /\ NoOps(i) \in Diagnostics
    BY <2>1, DiagnosticTyped DEF SchemaEmpty, NoOps, Codes
  <2>3. g[i] = If(c, SchemaEmpty(i)) \o If(e, NoOps(i))
    BY DEF SchemaEmpty, NoOps
  <2> HIDE DEF g, c, e
  <2>4. /\ g[i] \in Seq(Diagnostics)
        /\ ToSet(g[i]) = (IF c THEN {SchemaEmpty(i)} ELSE {})
                           \cup (IF e THEN {NoOps(i)} ELSE {})
    BY <2>2, <2>3, TwoIfs
  <2>5. \A d : d \in ToSet(g[i]) <=> (c /\ d = SchemaEmpty(i)) \/ (e /\ d = NoOps(i))
    BY <2>4
  <2> QED
    BY <2>4, <2>5 DEF c, e
<1>2. ProviderDeclFindings(m) = FlattenSeq(g)
  BY DEF ProviderDeclFindings
<1>3. g = [i \in DOMAIN m.providers |-> g[i]]
  OBVIOUS
<1> HIDE DEF g
<1>4. /\ FlattenSeq(g) \in Seq(Diagnostics)
      /\ \A d : d \in ToSet(FlattenSeq(g)) <=> \E i \in DOMAIN m.providers : d \in ToSet(g[i])
  BY <1>1, <1>3, ProvidersAre, FlattenEach
<1> QED
  BY <1>1, <1>2, <1>4

TopicBroken == Diagnostic("error", "EVT_INVALID_TOPIC", "topic")
TypeSuspect == Diagnostic("warn", "EVT_SUSPECT_TYPE_FORMAT", "type")

LEMMA TopicTypeFinds ==
  ASSUME NEW m
  PROVE  /\ TopicTypeFindings(m) \in Seq(Diagnostics)
         /\ \A d : d \in ToSet(TopicTypeFindings(m)) <=>
              \/ Topic(m) # Absent /\ ~IsValidTopic(Topic(m)) /\ d = TopicBroken
              \/ EventType(m) \in {"blank", "other"} /\ d = TypeSuspect
<1> DEFINE c == Topic(m) # Absent /\ ~IsValidTopic(Topic(m))
           e == EventType(m) \in {"blank", "other"}
<1>1. TopicBroken \in Diagnostics /\ TypeSuspect \in Diagnostics
  BY DiagnosticTyped DEF TopicBroken, TypeSuspect, Codes
<1>2. TopicTypeFindings(m) = If(c, TopicBroken) \o If(e, TypeSuspect)
  BY DEF TopicTypeFindings, TopicBroken, TypeSuspect
<1> HIDE DEF c, e
<1>3. /\ TopicTypeFindings(m) \in Seq(Diagnostics)
      /\ ToSet(TopicTypeFindings(m))
           = (IF c THEN {TopicBroken} ELSE {}) \cup (IF e THEN {TypeSuspect} ELSE {})
  BY <1>1, <1>2, TwoIfs
<1>4. \A d : d \in ToSet(TopicTypeFindings(m))
              <=> (c /\ d = TopicBroken) \/ (e /\ d = TypeSuspect)
  BY <1>3
<1> QED
  BY <1>3, <1>4 DEF c, e

LEMMA TopicFinds ==
  ASSUME NEW m
  PROVE  /\ TopicFindings(m) \in Seq(Diagnostics)
         /\ \A d : d \in ToSet(TopicFindings(m)) <=>
              Topic(m) # Absent /\ ~TopicPasses(Topic(m)) /\ d = TopicBroken
<1>1. TopicBroken \in Diagnostics
  BY DiagnosticTyped DEF TopicBroken, Codes
<1> DEFINE c == Topic(m) # Absent /\ ~TopicPasses(Topic(m))
<1>2. TopicFindings(m) = If(c, TopicBroken)
  BY DEF TopicFindings, TopicBroken
<1> HIDE DEF c
<1>3. /\ If(c, TopicBroken) \in Seq(Diagnostics)
      /\ ToSet(If(c, TopicBroken)) = IF c THEN {TopicBroken} ELSE {}
  BY <1>1, IfHolds
<1>4. \A d : d \in ToSet(TopicFindings(m)) <=> c /\ d = TopicBroken
  BY <1>2, <1>3
<1> QED
  BY <1>2, <1>3, <1>4 DEF c

EntryMissing(id) == Diagnostic("error", "EVT_ENTRY_FLOW_MISSING", id)
HandlerMissing(id) == Diagnostic("error", "EVT_HANDLER_FLOW_MISSING", id)
HandlerUnlisted(id) == Diagnostic("warn", "EVT_HANDLER_FLOW_MISSING", id)

LEMMA FlowDiagnosticsTyped ==
  ASSUME NEW id \in FlowIds
  PROVE  /\ EntryMissing(id) \in Diagnostics
         /\ HandlerMissing(id) \in Diagnostics
         /\ HandlerUnlisted(id) \in Diagnostics
BY DiagnosticTyped DEF EntryMissing, HandlerMissing, HandlerUnlisted, Codes

LEMMA EntriesAre ==
  ASSUME NEW m \in Manifests
  PROVE  \A i \in DOMAIN EntryFlows(m) : EntryFlows(m)[i] \in FlowIds
BY EntryFlowsTyped, ElementOfSeq, LenProperties

LEMMA FlowsAre ==
  ASSUME NEW m \in Manifests
  PROVE  /\ m.flows \in Seq([id : FlowIds, v1 : BOOLEAN])
         /\ \A i \in DOMAIN m.flows : m.flows[i].id \in FlowIds
<1>1. m.flows \in Seq([id : FlowIds, v1 : BOOLEAN])
  BY ManifestTyped DEF IsManifest
<1>2. \A i \in DOMAIN m.flows : m.flows[i] \in [id : FlowIds, v1 : BOOLEAN]
  BY <1>1, ElementOfSeq, LenProperties
<1> QED
  BY <1>1, <1>2

\* A handler that is no flow of the pack, or none in version 1.
Unhandled(m, id) == id \in HandlerIds /\ (id \in IdsOf(m) => ~FlowIndex(m, id).v1)

LEMMA HandlerFlowFinds ==
  ASSUME NEW m \in Manifests
  PROVE  /\ HandlerFlowFindings(m) \in Seq(Diagnostics)
         /\ \A d : d \in ToSet(HandlerFlowFindings(m)) <=>
              \/ \E i \in DOMAIN EntryFlows(m) :
                   \/ EntryFlows(m)[i] \notin IdsOf(m) /\ d = EntryMissing(EntryFlows(m)[i])
                   \/ Unhandled(m, EntryFlows(m)[i]) /\ d = HandlerMissing(EntryFlows(m)[i])
              \/ \E i \in DOMAIN m.flows :
                   /\ m.flows[i].id \in HandlerIds /\ ~m.flows[i].v1
                   /\ d = HandlerMissing(m.flows[i].id)
<1> DEFINE g == [i \in DOMAIN EntryFlows(m) |-> EntryFindings(m, EntryFlows(m)[i])]
           h == [i \in DOMAIN m.flows |->
                   If(m.flows[i].id \in HandlerIds /\ ~m.flows[i].v1,
                      Diagnostic("error", "EVT_HANDLER_FLOW_MISSING", m.flows[i].id))]
<1>1. ASSUME NEW i \in DOMAIN EntryFlows(m)
      PROVE  /\ g[i] \in Seq(Diagnostics)
             /\ \A d : d \in ToSet(g[i]) <=>
                  \/ EntryFlows(m)[i] \notin IdsOf(m) /\ d = EntryMissing(EntryFlows(m)[i])
                  \/ Unhandled(m, EntryFlows(m)[i]) /\ d = HandlerMissing(EntryFlows(m)[i])
  <2> DEFINE id == EntryFlows(m)[i]
  <2>1. id \in FlowIds
    BY EntriesAre
  <2>2. g[i] = If(id \notin IdsOf(m), EntryMissing(id))
                 \o If(Unhandled(m, id), HandlerMissing(id))
    BY DEF EntryFindings, EntryMissing, HandlerMissing, Unhandled
  <2> DEFINE c == id \notin IdsOf(m)
             e == Unhandled(m, id)
  <2> HIDE DEF g, id
  <2>3. EntryMissing(id) \in Diagnostics /\ HandlerMissing(id) \in Diagnostics
    BY <2>1, FlowDiagnosticsTyped
  <2>4. g[i] = If(c, EntryMissing(id)) \o If(e, HandlerMissing(id))
    BY <2>2
  <2> HIDE DEF c, e
  <2>5. /\ g[i] \in Seq(Diagnostics)
        /\ ToSet(g[i]) = (IF c THEN {EntryMissing(id)} ELSE {})
                           \cup (IF e THEN {HandlerMissing(id)} ELSE {})
    BY <2>3, <2>4, TwoIfs
  <2>6. \A d : d \in ToSet(g[i])
                <=> (c /\ d = EntryMissing(id)) \/ (e /\ d = HandlerMissing(id))
    BY <2>5
  <2> QED
    BY <2>5, <2>6 DEF c, e, id
<1>2. ASSUME NEW i \in DOMAIN m.flows
      PROVE  /\ h[i] \in Seq(Diagnostics)
             /\ \A d : d \in ToSet(h[i]) <=>
                  /\ m.flows[i].id \in HandlerIds /\ ~m.flows[i].v1
                  /\ d = HandlerMissing(m.flows[i].id)
  <2> DEFINE id == m.flows[i].id
             c == id \in HandlerIds /\ ~m.flows[i].v1
  <2>1. h[i] = If(c, HandlerMissing(id))
    BY DEF HandlerMissing
  <2>2. HandlerMissing(id) \in Diagnostics
    BY FlowsAre, FlowDiagnosticsTyped
  <2> HIDE DEF h, c, id
  <2>3. /\ h[i] \in Seq(Diagnostics)
        /\ ToSet(h[i]) = IF c THEN {HandlerMissing(id)} ELSE {}
    BY <2>1, <2>2, IfHolds
  <2>4. \A d : d \in ToSet(h[i]) <=> c /\ d = HandlerMissing(id)
    BY <2>3
  <2> QED
    BY <2>3, <2>4 DEF c, id
<1>3. HandlerFlowFindings(m) = FlattenSeq(g) \o FlattenSeq(h)
  BY DEF HandlerFlowFindings
<1> DEFINE flows == m.flows
           entries == EntryFlows(m)
<1>4. /\ g = [i \in DOMAIN entries |-> g[i]]
      /\ h = [i \in DOMAIN flows |-> h[i]]
  OBVIOUS
<1>5. flows \in Seq([id : FlowIds, v1 : BOOLEAN]) /\ entries \in Seq(FlowIds)
  BY FlowsAre, EntryFlowsTyped
<1> HIDE DEF g, h, flows, entries
<1>6. /\ FlattenSeq(g) \in Seq(Diagnostics)
      /\ \A d : d \in ToSet(FlattenSeq(g)) <=> \E i \in DOMAIN entries : d \in ToSet(g[i])
  <2>1. \A i \in DOMAIN entries : g[i] \in Seq(Diagnostics)
    BY <1>1 DEF entries
  <2> QED
    BY <1>4, <1>5, <2>1, FlattenEach
<1>7. /\ FlattenSeq(h) \in Seq(Diagnostics)
      /\ \A d : d \in ToSet(FlattenSeq(h)) <=> \E i \in DOMAIN flows : d \in ToSet(h[i])
  <2>1. \A i \in DOMAIN flows : h[i] \in Seq(Diagnostics)
    BY <1>2 DEF flows
  <2> QED
    BY <1>4, <1>5, <2>1, FlattenEach
<1>8. /\ HandlerFlowFindings(m) \in Seq(Diagnostics)
      /\ ToSet(HandlerFlowFindings(m)) = ToSet(FlattenSeq(g)) \cup ToSet(FlattenSeq(h))
  BY <1>3, <1>6, <1>7, ConcatHolds
<1> QED
  BY <1>1, <1>2, <1>6, <1>7, <1>8 DEF flows, entries

LEMMA EntryFlowFinds ==
  ASSUME NEW m \in Manifests
  PROVE  /\ EntryFlowFindings(m) \in Seq(Diagnostics)
         /\ \A d : d \in ToSet(EntryFlowFindings(m)) <=>
              \E i \in DOMAIN EntryFlows(m) :
                \/ EntryFlows(m)[i] \notin IdsOf(m) /\ d = EntryMissing(EntryFlows(m)[i])
                \/ /\ EntryFlows(m)[i] \in HandlerIds \ IdsOf(m)
                   /\ d = HandlerUnlisted(EntryFlows(m)[i])
<1> DEFINE g == [i \in DOMAIN EntryFlows(m) |->
                  LET id == EntryFlows(m)[i] IN
                    If(id \notin IdsOf(m), Diagnostic("error", "EVT_ENTRY_FLOW_MISSING", id))
                    \o If(id \in HandlerIds \ IdsOf(m),
                          Diagnostic("warn", "EVT_HANDLER_FLOW_MISSING", id))]
<1>1. ASSUME NEW i \in DOMAIN EntryFlows(m)
      PROVE  /\ g[i] \in Seq(Diagnostics)
             /\ \A d : d \in ToSet(g[i]) <=>
                  \/ EntryFlows(m)[i] \notin IdsOf(m) /\ d = EntryMissing(EntryFlows(m)[i])
                  \/ /\ EntryFlows(m)[i] \in HandlerIds \ IdsOf(m)
                     /\ d = HandlerUnlisted(EntryFlows(m)[i])
  <2> DEFINE id == EntryFlows(m)[i]
  <2>1. id \in FlowIds
    BY EntriesAre
  <2>2. g[i] = If(id \notin IdsOf(m), EntryMissing(id))
                 \o If(id \in HandlerIds \ IdsOf(m), HandlerUnlisted(id))
    BY DEF EntryMissing, HandlerUnlisted
  <2> DEFINE c == id \notin IdsOf(m)
             e == id \in HandlerIds \ IdsOf(m)
  <2> HIDE DEF g, id
  <2>3. EntryMissing(id) \in Diagnostics /\ HandlerUnlisted(id) \in Diagnostics
    BY <2>1, FlowDiagnosticsTyped
  <2>4. g[i] = If(c, EntryMissing(id)) \o If(e, HandlerUnlisted(id))
    BY <2>2
  <2> HIDE DEF c, e
  <2>5. /\ g[i] \in Seq(Diagnostics)
        /\ ToSet(g[i]) = (IF c THEN {EntryMissing(id)} ELSE {})
                           \cup (IF e THEN {HandlerUnlisted(id)} ELSE {})
    BY <2>3, <2>4, TwoIfs
  <2>6. \A d : d \in ToSet(g[i])
                <=> (c /\ d = EntryMissing(id)) \/ (e /\ d = HandlerUnlisted(id))
    BY <2>5
  <2> QED
    BY <2>5, <2>6 DEF c, e, id
<1>2. EntryFlowFindings(m) = FlattenSeq(g)
  BY DEF EntryFlowFindings
<1>3. g = [i \in DOMAIN EntryFlows(m) |-> g[i]]
  OBVIOUS
<1> HIDE DEF g
<1>4. /\ FlattenSeq(g) \in Seq(Diagnostics)
      /\ \A d : d \in ToSet(FlattenSeq(g)) <=> \E i \in DOMAIN EntryFlows(m) : d \in ToSet(g[i])
  BY <1>1, <1>3, EntryFlowsTyped, FlattenEach
<1> QED
  BY <1>1, <1>2, <1>4

\* A schema reference to a file of the pack that is not there.
Dangling(m, ref) == ref \in Paths /\ ref \notin m.files
SchemaMissing(i) == Diagnostic("error", "EVT_SCHEMA_MISSING", i)

LEMMA SchemaFinds ==
  ASSUME NEW m \in Manifests
  PROVE  /\ SchemaFindings(m) \in Seq(Diagnostics)
         /\ \A d : d \in ToSet(SchemaFindings(m)) <=>
              \E i \in DOMAIN m.providers :
                /\ Dangling(m, m.providers[i].config) \/ Dangling(m, m.providers[i].state)
                /\ d = SchemaMissing(i)
<1> DEFINE g == [i \in DOMAIN m.providers |->
                   If(Dangling(m, m.providers[i].config), SchemaMissing(i))
                   \o If(Dangling(m, m.providers[i].state), SchemaMissing(i))]
<1>1. ASSUME NEW i \in DOMAIN m.providers
      PROVE  /\ g[i] \in Seq(Diagnostics)
             /\ \A d : d \in ToSet(g[i]) <=>
                  /\ Dangling(m, m.providers[i].config) \/ Dangling(m, m.providers[i].state)
                  /\ d = SchemaMissing(i)
  <2>1. i \in Nat
    BY ProvidersAre
  <2>2. SchemaMissing(i) \in Diagnostics
    BY <2>1, DiagnosticTyped DEF SchemaMissing, Codes
  <2> DEFINE c == Dangling(m, m.providers[i].config)
             e == Dangling(m, m.providers[i].state)
  <2>3. g[i] = If(c, SchemaMissing(i)) \o If(e, SchemaMissing(i))
    OBVIOUS
  <2> HIDE DEF g, c, e
  <2>4. /\ g[i] \in Seq(Diagnostics)
        /\ ToSet(g[i]) = (IF c THEN {SchemaMissing(i)} ELSE {})
                           \cup (IF e THEN {SchemaMissing(i)} ELSE {})
    BY <2>2, <2>3, TwoIfs
  <2>5. \A d : d \in ToSet(g[i]) <=> (c \/ e) /\ d = SchemaMissing(i)
    BY <2>4
  <2> QED
    BY <2>4, <2>5 DEF c, e
<1>2. SchemaFindings(m) = FlattenSeq(g)
  BY DEF SchemaFindings, Dangling, SchemaMissing
<1>3. g = [i \in DOMAIN m.providers |-> g[i]]
  OBVIOUS
<1> HIDE DEF g
<1>4. /\ FlattenSeq(g) \in Seq(Diagnostics)
      /\ \A d : d \in ToSet(FlattenSeq(g)) <=> \E i \in DOMAIN m.providers : d \in ToSet(g[i])
  BY <1>1, <1>3, ProvidersAre, FlattenEach
<1> QED
  BY <1>1, <1>2, <1>4

\* The two topic tests are one.
LEMMA TopicTestsAgree ==
  ASSUME NEW t \in Seq(Segments)
  PROVE  /\ IsValidTopic(t) <=> TopicPasses(t)
         /\ IsValidTopic(t) =>
              Len(t) > 1 /\ ~Contains(t, "bad") /\ t[1] # "dashed"
<1>1. Len(t) \in Nat /\ DOMAIN t = 1 .. Len(t) /\ \A i \in 1 .. Len(t) : t[i] \in Segments
  BY LenProperties, ElementOfSeq
<1>2. CASE Len(t) < 2
  <2>1. t # <<>> => Tail(t) = <<>>
    <3>1. t # <<>> => Tail(t) \in Seq(Segments) /\ Len(Tail(t)) = Len(t) - 1
      BY HeadTailProperties
    <3>2. t # <<>> => Len(t) # 0
      BY EmptySeq
    <3>3. t # <<>> => Len(Tail(t)) = 0
      BY <1>1, <1>2, <3>1, <3>2
    <3> QED
      BY <3>1, <3>3, EmptySeq
  <2> QED
    BY <1>1, <1>2, <2>1 DEF IsValidTopic, TopicPasses
<1>3. CASE ~(Len(t) < 2)
  <2>1. t # <<>> /\ Tail(t) \in Seq(Segments) /\ Len(Tail(t)) = Len(t) - 1
        /\ \A i \in 1 .. Len(Tail(t)) : Tail(t)[i] = t[i + 1]
    BY <1>1, <1>3, HeadTailProperties, EmptySeq
  <2>2. DOMAIN Tail(t) = 1 .. Len(t) - 1 /\ Tail(t) # <<>>
    <3>1. DOMAIN Tail(t) = 1 .. Len(Tail(t))
      BY <2>1, LenProperties
    <3>2. Len(t) - 1 # 0
      BY <1>1, <1>3
    <3> QED
      BY <2>1, <3>1, <3>2, EmptySeq
  <2>3. \A i \in 2 .. Len(t) : i - 1 \in DOMAIN Tail(t) /\ Tail(t)[i - 1] = t[i]
    BY <1>1, <2>1, <2>2
  <2>4. \A i \in DOMAIN Tail(t) : i + 1 \in 2 .. Len(t) /\ Tail(t)[i] = t[i + 1]
    BY <1>1, <2>1, <2>2
  <2>5. (\A i \in 2 .. Len(t) : t[i] \in {"alnum", "dashed"})
          <=> \A i \in DOMAIN Tail(t) : Tail(t)[i] # "bad"
    <3>1. \A i \in 2 .. Len(t) : t[i] \in {"alnum", "dashed"} <=> t[i] # "bad"
      BY <1>1 DEF Segments
    <3> QED
      BY <2>3, <2>4, <3>1
  <2>6. IsValidTopic(t) <=> TopicPasses(t)
    BY <1>1, <1>3, <2>1, <2>2, <2>5 DEF IsValidTopic, TopicPasses
  <2>7. ASSUME IsValidTopic(t)
        PROVE  Len(t) > 1 /\ ~Contains(t, "bad") /\ t[1] # "dashed"
    <3>1. t[1] = "alnum" /\ \A i \in 2 .. Len(t) : t[i] \in {"alnum", "dashed"}
      BY <2>7 DEF IsValidTopic
    <3>2. \A i \in 1 .. Len(t) : t[i] # "bad"
      BY <1>1, <3>1
    <3> QED
      BY <1>1, <1>3, <3>1, <3>2 DEF Contains
  <2> QED
    BY <2>6, <2>7
<1> QED
  BY <1>2, <1>3

---------------------------------------------------------------------------
(* The host runs the validators *)

\* What a native validator has added.
Found(validator, applies, findings) ==
  IF validator \notin toRun /\ applies THEN ToSet(findings) ELSE {}

NativeFound ==
  ToSet(native) =
    Found("provider-decl", IsEventsPack(manifest), ProviderDeclFindings(manifest))
    \cup Found("topic-type-format", IsEventsPack(manifest), TopicTypeFindings(manifest))
    \cup Found("handler-flow", HandlerFlowApplies(manifest), HandlerFlowFindings(manifest))

ComponentFound ==
  "component" \notin toRun =>
    ToSet(wasm) =
      IF IsEventsPackByFiles(manifest)
      THEN ToSet(SchemaFindings(manifest)) \cup ToSet(TopicFindings(manifest))
             \cup ToSet(EntryFlowFindings(manifest))
      ELSE {}

HostTypeOK ==
  /\ manifest \in Manifests
  /\ native \in Seq(Diagnostics)
  /\ wasm \in Seq(Diagnostics)
  /\ toRun \subseteq NativeValidators \cup {"component"}

HostInv == HostTypeOK /\ NativeFound /\ ComponentFound

LEMMA EmptyHolds == <<>> \in Seq(Diagnostics) /\ ToSet(<<>>) = {}
<1>1. <<>> \in Seq(Diagnostics) /\ DOMAIN <<>> = {}
  OBVIOUS
<1> QED
  BY <1>1 DEF ToSet

LEMMA HostInitInv == HostInit => HostInv
<1> SUFFICES ASSUME HostInit
             PROVE  HostInv
  OBVIOUS
<1>1. HostTypeOK
  BY EmptyHolds DEF HostInit, HostTypeOK
<1>2. /\ "provider-decl" \in toRun /\ "topic-type-format" \in toRun
      /\ "handler-flow" \in toRun /\ "component" \in toRun
  BY DEF HostInit, NativeValidators
<1>3. ToSet(native) = {}
  BY EmptyHolds DEF HostInit
<1>4. NativeFound
  BY <1>2, <1>3 DEF NativeFound, Found
<1>5. ComponentFound
  BY <1>2 DEF ComponentFound
<1> QED
  BY <1>1, <1>4, <1>5 DEF HostInv

\* A validator that runs adds its findings and leaves what the others added.
LEMMA NativeAdds ==
  ASSUME HostInv, NEW validator \in NativeValidators, NEW applies,
         NEW findings \in Seq(Diagnostics), RunNative(validator, applies, findings)
  PROVE  /\ HostTypeOK' /\ ComponentFound'
         /\ ToSet(native)' = ToSet(native) \cup (IF applies THEN ToSet(findings) ELSE {})
<1>1. /\ native' = IF applies THEN native \o findings ELSE native
      /\ toRun' = toRun \ {validator} /\ manifest' = manifest /\ wasm' = wasm
  BY DEF RunNative
<1>2. native \in Seq(Diagnostics)
  BY DEF HostInv, HostTypeOK
<1>3. /\ native \o findings \in Seq(Diagnostics)
      /\ ToSet(native \o findings) = ToSet(native) \cup ToSet(findings)
  BY <1>2, ConcatHolds
<1>4. /\ native' \in Seq(Diagnostics)
      /\ ToSet(native') = ToSet(native) \cup (IF applies THEN ToSet(findings) ELSE {})
  BY <1>1, <1>2, <1>3
<1>5. HostTypeOK'
  BY <1>1, <1>4 DEF HostInv, HostTypeOK
<1>6. "component" \notin toRun' => "component" \notin toRun
  BY <1>1 DEF NativeValidators
<1>7. ComponentFound'
  BY <1>1, <1>6 DEF HostInv, ComponentFound
<1>8. ToSet(native)' = ToSet(native')
  BY DEF ToSet
<1> QED
  BY <1>4, <1>5, <1>7, <1>8

LEMMA HostStep == HostInv /\ [HostNext]_hostVars => HostInv'
<1> SUFFICES ASSUME HostInv, [HostNext]_hostVars
             PROVE  HostInv'
  OBVIOUS
<1> DEFINE m == manifest
<1>0. m \in Manifests
  BY DEF HostInv, HostTypeOK
<1>1. CASE ProviderDecl
  <2>1. RunNative("provider-decl", IsEventsPack(m), ProviderDeclFindings(m))
    BY <1>1 DEF ProviderDecl
  <2>2. ProviderDeclFindings(m) \in Seq(Diagnostics)
    BY <1>0, ProviderDeclFinds
  <2>3. "provider-decl" \in toRun /\ toRun' = toRun \ {"provider-decl"} /\ m' = m
    BY <2>1 DEF RunNative
  <2>4. /\ HostTypeOK' /\ ComponentFound'
        /\ ToSet(native)' = ToSet(native)
             \cup (IF IsEventsPack(m) THEN ToSet(ProviderDeclFindings(m)) ELSE {})
    BY <2>1, <2>2, NativeAdds DEF NativeValidators
  <2>5. NativeFound'
    BY <2>3, <2>4 DEF HostInv, NativeFound, Found
  <2> QED
    BY <2>4, <2>5 DEF HostInv
<1>2. CASE TopicTypeFormat
  <2>1. RunNative("topic-type-format", IsEventsPack(m), TopicTypeFindings(m))
    BY <1>2 DEF TopicTypeFormat
  <2>2. TopicTypeFindings(m) \in Seq(Diagnostics)
    BY TopicTypeFinds
  <2>3. "topic-type-format" \in toRun /\ toRun' = toRun \ {"topic-type-format"} /\ m' = m
    BY <2>1 DEF RunNative
  <2>4. /\ HostTypeOK' /\ ComponentFound'
        /\ ToSet(native)' = ToSet(native)
             \cup (IF IsEventsPack(m) THEN ToSet(TopicTypeFindings(m)) ELSE {})
    BY <2>1, <2>2, NativeAdds DEF NativeValidators
  <2>5. NativeFound'
    BY <2>3, <2>4 DEF HostInv, NativeFound, Found
  <2> QED
    BY <2>4, <2>5 DEF HostInv
<1>3. CASE HandlerFlow
  <2>1. RunNative("handler-flow", HandlerFlowApplies(m), HandlerFlowFindings(m))
    BY <1>3 DEF HandlerFlow
  <2>2. HandlerFlowFindings(m) \in Seq(Diagnostics)
    BY <1>0, HandlerFlowFinds
  <2>3. "handler-flow" \in toRun /\ toRun' = toRun \ {"handler-flow"} /\ m' = m
    BY <2>1 DEF RunNative
  <2>4. /\ HostTypeOK' /\ ComponentFound'
        /\ ToSet(native)' = ToSet(native)
             \cup (IF HandlerFlowApplies(m) THEN ToSet(HandlerFlowFindings(m)) ELSE {})
    BY <2>1, <2>2, NativeAdds DEF NativeValidators
  <2>5. NativeFound'
    BY <2>3, <2>4 DEF HostInv, NativeFound, Found
  <2> QED
    BY <2>4, <2>5 DEF HostInv
<1>4. CASE PackValidator
  <2> DEFINE found == SchemaFindings(m) \o TopicFindings(m)
  <2>1. /\ SchemaFindings(m) \in Seq(Diagnostics) /\ TopicFindings(m) \in Seq(Diagnostics)
        /\ EntryFlowFindings(m) \in Seq(Diagnostics)
    BY <1>0, SchemaFinds, TopicFinds, EntryFlowFinds
  <2>2. /\ found \in Seq(Diagnostics)
        /\ ToSet(found) = ToSet(SchemaFindings(m)) \cup ToSet(TopicFindings(m))
    BY <2>1, ConcatHolds
  <2>3. /\ wasm' = IF IsEventsPackByFiles(m) THEN found \o EntryFlowFindings(m) ELSE <<>>
        /\ toRun' = toRun \ {"component"} /\ m' = m /\ native' = native
    BY <1>4 DEF PackValidator
  <2> HIDE DEF found
  <2>4. /\ found \o EntryFlowFindings(m) \in Seq(Diagnostics)
        /\ ToSet(found \o EntryFlowFindings(m))
             = ToSet(found) \cup ToSet(EntryFlowFindings(m))
    BY <2>1, <2>2, ConcatHolds
  <2>5. wasm' \in Seq(Diagnostics)
    BY <2>3, <2>4, EmptyHolds
  <2>6. HostTypeOK'
    BY <2>3, <2>5 DEF HostInv, HostTypeOK
  <2>7. /\ ToSet(wasm') = IF IsEventsPackByFiles(m)
                          THEN ToSet(SchemaFindings(m)) \cup ToSet(TopicFindings(m))
                                 \cup ToSet(EntryFlowFindings(m))
                          ELSE {}
    BY <2>2, <2>3, <2>4, EmptyHolds
  <2>8. ComponentFound'
    BY <2>3, <2>7 DEF ComponentFound
  <2>9. NativeFound'
    <3>1. \A v \in NativeValidators : v \in toRun' <=> v \in toRun
      BY <2>3 DEF NativeValidators
    <3> QED
      BY <2>3, <3>1 DEF HostInv, NativeFound, Found, NativeValidators
  <2> QED
    BY <2>6, <2>8, <2>9 DEF HostInv
<1>5. CASE UNCHANGED hostVars
  <2>1. /\ manifest' = manifest /\ native' = native /\ wasm' = wasm /\ toRun' = toRun
    BY <1>5 DEF hostVars
  <2>2. HostTypeOK'
    BY <2>1 DEF HostInv, HostTypeOK
  <2>3. NativeFound'
    BY <2>1 DEF HostInv, NativeFound, Found
  <2>4. ComponentFound'
    BY <2>1 DEF HostInv, ComponentFound
  <2> QED
    BY <2>2, <2>3, <2>4 DEF HostInv
<1> QED
  BY <1>1, <1>2, <1>3, <1>4, <1>5 DEF HostNext

\* What the two lists hold once every validator has run.
LEMMA HostDone ==
  ASSUME HostInv, toRun = {}
  PROVE  /\ ToSet(native) =
              (IF IsEventsPack(manifest)
               THEN ToSet(ProviderDeclFindings(manifest)) \cup ToSet(TopicTypeFindings(manifest))
               ELSE {})
              \cup (IF HandlerFlowApplies(manifest)
                    THEN ToSet(HandlerFlowFindings(manifest)) ELSE {})
         /\ ToSet(wasm) =
              IF IsEventsPackByFiles(manifest)
              THEN ToSet(SchemaFindings(manifest)) \cup ToSet(TopicFindings(manifest))
                     \cup ToSet(EntryFlowFindings(manifest))
              ELSE {}
BY DEF HostInv, NativeFound, ComponentFound, Found

LEMMA AboutIs ==
  ASSUME NEW list, NEW code
  PROVE  \A x : x \in About(list, code) <=>
                  \E d \in ToSet(list) : d.code = code /\ d.about = x
BY DEF About, ToSet

LEMMA DiagnosticIs ==
  ASSUME NEW severity, NEW code, NEW about
  PROVE  /\ Diagnostic(severity, code, about).severity = severity
         /\ Diagnostic(severity, code, about).code = code
         /\ Diagnostic(severity, code, about).about = about
BY DEF Diagnostic

\* Severity, code and subject of every kind of diagnostic.
LEMMA KindsAre ==
  /\ TopicBroken.severity = "error" /\ TopicBroken.code = "EVT_INVALID_TOPIC"
  /\ TopicBroken.about = "topic"
  /\ TypeSuspect.severity = "warn" /\ TypeSuspect.code = "EVT_SUSPECT_TYPE_FORMAT"
  /\ \A x : /\ EntryMissing(x).severity = "error" /\ EntryMissing(x).about = x
            /\ EntryMissing(x).code = "EVT_ENTRY_FLOW_MISSING"
            /\ HandlerMissing(x).severity = "error" /\ HandlerMissing(x).about = x
            /\ HandlerMissing(x).code = "EVT_HANDLER_FLOW_MISSING"
            /\ HandlerUnlisted(x).severity = "warn" /\ HandlerUnlisted(x).about = x
            /\ HandlerUnlisted(x).code = "EVT_HANDLER_FLOW_MISSING"
            /\ SchemaMissing(x).severity = "error"
            /\ SchemaMissing(x).code = "EVT_SCHEMA_MISSING"
            /\ SchemaEmpty(x).severity = "error"
            /\ SchemaEmpty(x).code = "EVT_PROVIDER_SCHEMA_EMPTY"
            /\ NoOps(x).severity = "warn" /\ NoOps(x).code = "EVT_PROVIDER_NO_OPS"
BY DiagnosticIs DEF TopicBroken, TypeSuspect, EntryMissing, HandlerMissing, HandlerUnlisted,
                    SchemaMissing, SchemaEmpty, NoOps

\* What is reported under each code at the end, by either side.
LEMMA NativeAbout ==
  ASSUME HostInv, toRun = {}
  PROVE  /\ \A x : x \in About(native, "EVT_INVALID_TOPIC") <=>
              /\ IsEventsPack(manifest)
              /\ Topic(manifest) # Absent /\ ~IsValidTopic(Topic(manifest)) /\ x = "topic"
         /\ \A x : x \in About(native, "EVT_ENTRY_FLOW_MISSING") <=>
              /\ HandlerFlowApplies(manifest)
              /\ \E i \in DOMAIN EntryFlows(manifest) :
                   EntryFlows(manifest)[i] \notin IdsOf(manifest) /\ x = EntryFlows(manifest)[i]
         /\ \A i \in DOMAIN EntryFlows(manifest) :
              /\ HandlerFlowApplies(manifest)
              /\ Unhandled(manifest, EntryFlows(manifest)[i])
              => EntryFlows(manifest)[i] \in About(native, "EVT_HANDLER_FLOW_MISSING")
<1> DEFINE m == manifest
           decl == ToSet(ProviderDeclFindings(m))
           text == ToSet(TopicTypeFindings(m))
           flow == ToSet(HandlerFlowFindings(m))
           id(i) == EntryFlows(m)[i]
<1>1. m \in Manifests
  BY DEF HostInv, HostTypeOK
<1>2. \A d : d \in ToSet(native) <=>
        \/ IsEventsPack(m) /\ (d \in decl \/ d \in text)
        \/ HandlerFlowApplies(m) /\ d \in flow
  BY HostDone
<1>3. \A d \in decl : d.code \in {"EVT_PROVIDER_SCHEMA_EMPTY", "EVT_PROVIDER_NO_OPS"}
  BY <1>1, ProviderDeclFinds, KindsAre
<1>4. \A d : d \in text <=>
        \/ Topic(m) # Absent /\ ~IsValidTopic(Topic(m)) /\ d = TopicBroken
        \/ EventType(m) \in {"blank", "other"} /\ d = TypeSuspect
  BY TopicTypeFinds
<1>5. \A d : d \in flow <=>
        \/ \E i \in DOMAIN EntryFlows(m) :
             \/ id(i) \notin IdsOf(m) /\ d = EntryMissing(id(i))
             \/ Unhandled(m, id(i)) /\ d = HandlerMissing(id(i))
        \/ \E i \in DOMAIN m.flows :
             /\ m.flows[i].id \in HandlerIds /\ ~m.flows[i].v1
             /\ d = HandlerMissing(m.flows[i].id)
  BY <1>1, HandlerFlowFinds
<1> HIDE DEF m, decl, text, flow
<1>6. ASSUME NEW x
      PROVE  x \in About(native, "EVT_INVALID_TOPIC") <=>
               IsEventsPack(m) /\ Topic(m) # Absent /\ ~IsValidTopic(Topic(m)) /\ x = "topic"
  <2>1. x \in About(native, "EVT_INVALID_TOPIC")
          <=> \E d \in ToSet(native) : d.code = "EVT_INVALID_TOPIC" /\ d.about = x
    BY AboutIs
  <2>2. \A d \in text : d.code = "EVT_INVALID_TOPIC" => d = TopicBroken
    BY <1>4, KindsAre
  <2>3. \A d \in flow : d.code # "EVT_INVALID_TOPIC"
    BY <1>5, KindsAre
  <2>4. \A d \in ToSet(native) :
          d.code = "EVT_INVALID_TOPIC"
            => /\ d = TopicBroken /\ IsEventsPack(m)
               /\ Topic(m) # Absent /\ ~IsValidTopic(Topic(m))
    BY <1>2, <1>3, <1>4, <2>2, <2>3, KindsAre
  <2>5. IsEventsPack(m) /\ Topic(m) # Absent /\ ~IsValidTopic(Topic(m))
          => TopicBroken \in ToSet(native)
    BY <1>2, <1>4
  <2> QED
    BY <2>1, <2>4, <2>5, KindsAre
<1>7. ASSUME NEW x
      PROVE  x \in About(native, "EVT_ENTRY_FLOW_MISSING") <=>
               /\ HandlerFlowApplies(m)
               /\ \E i \in DOMAIN EntryFlows(m) : id(i) \notin IdsOf(m) /\ x = id(i)
  <2>1. x \in About(native, "EVT_ENTRY_FLOW_MISSING")
          <=> \E d \in ToSet(native) : d.code = "EVT_ENTRY_FLOW_MISSING" /\ d.about = x
    BY AboutIs
  <2>2. \A d \in text : d.code # "EVT_ENTRY_FLOW_MISSING"
    BY <1>4, KindsAre
  <2>3. \A d \in flow : d.code = "EVT_ENTRY_FLOW_MISSING" =>
          \E i \in DOMAIN EntryFlows(m) : id(i) \notin IdsOf(m) /\ d = EntryMissing(id(i))
    BY <1>5, KindsAre
  <2>4. \A d \in ToSet(native) : d.code = "EVT_ENTRY_FLOW_MISSING" =>
          /\ HandlerFlowApplies(m)
          /\ \E i \in DOMAIN EntryFlows(m) : id(i) \notin IdsOf(m) /\ d = EntryMissing(id(i))
    BY <1>2, <1>3, <2>2, <2>3
  <2>5. \A i \in DOMAIN EntryFlows(m) :
          HandlerFlowApplies(m) /\ id(i) \notin IdsOf(m) => EntryMissing(id(i)) \in ToSet(native)
    BY <1>2, <1>5
  <2> QED
    BY <2>1, <2>4, <2>5, KindsAre
<1>8. ASSUME NEW i \in DOMAIN EntryFlows(m), HandlerFlowApplies(m), Unhandled(m, id(i))
      PROVE  id(i) \in About(native, "EVT_HANDLER_FLOW_MISSING")
  <2>1. HandlerMissing(id(i)) \in ToSet(native)
    BY <1>2, <1>5, <1>8
  <2> QED
    BY <2>1, AboutIs, KindsAre
<1> QED
  BY <1>6, <1>7, <1>8 DEF m

LEMMA WasmAbout ==
  ASSUME HostInv, toRun = {}, IsEventsPackByFiles(manifest)
  PROVE  /\ \A x : x \in About(wasm, "EVT_INVALID_TOPIC") <=>
              Topic(manifest) # Absent /\ ~TopicPasses(Topic(manifest)) /\ x = "topic"
         /\ \A x : x \in About(wasm, "EVT_ENTRY_FLOW_MISSING") <=>
              \E i \in DOMAIN EntryFlows(manifest) :
                EntryFlows(manifest)[i] \notin IdsOf(manifest) /\ x = EntryFlows(manifest)[i]
         /\ \A x \in About(wasm, "EVT_HANDLER_FLOW_MISSING") :
              \E i \in DOMAIN EntryFlows(manifest) :
                x = EntryFlows(manifest)[i] /\ x \in HandlerIds \ IdsOf(manifest)
<1> DEFINE m == manifest
           schema == ToSet(SchemaFindings(m))
           text == ToSet(TopicFindings(m))
           flow == ToSet(EntryFlowFindings(m))
           id(i) == EntryFlows(m)[i]
<1>1. m \in Manifests
  BY DEF HostInv, HostTypeOK
<1>2. \A d : d \in ToSet(wasm) <=> d \in schema \/ d \in text \/ d \in flow
  BY HostDone
<1>3. \A d \in schema : d.code = "EVT_SCHEMA_MISSING"
  BY <1>1, SchemaFinds, KindsAre
<1>4. \A d : d \in text <=> Topic(m) # Absent /\ ~TopicPasses(Topic(m)) /\ d = TopicBroken
  BY TopicFinds
<1>5. \A d : d \in flow <=>
        \E i \in DOMAIN EntryFlows(m) :
          \/ id(i) \notin IdsOf(m) /\ d = EntryMissing(id(i))
          \/ id(i) \in HandlerIds \ IdsOf(m) /\ d = HandlerUnlisted(id(i))
  BY <1>1, EntryFlowFinds
<1> HIDE DEF m, schema, text, flow
<1>6. \A d \in flow : d.code \in {"EVT_ENTRY_FLOW_MISSING", "EVT_HANDLER_FLOW_MISSING"}
  BY <1>5, KindsAre
<1>7. ASSUME NEW x
      PROVE  x \in About(wasm, "EVT_INVALID_TOPIC") <=>
               Topic(m) # Absent /\ ~TopicPasses(Topic(m)) /\ x = "topic"
  <2>1. x \in About(wasm, "EVT_INVALID_TOPIC")
          <=> \E d \in ToSet(wasm) : d.code = "EVT_INVALID_TOPIC" /\ d.about = x
    BY AboutIs
  <2>2. \A d \in ToSet(wasm) : d.code = "EVT_INVALID_TOPIC" => d \in text
    BY <1>2, <1>3, <1>6
  <2> QED
    BY <1>2, <1>4, <2>1, <2>2, KindsAre
<1>8. ASSUME NEW x
      PROVE  x \in About(wasm, "EVT_ENTRY_FLOW_MISSING") <=>
               \E i \in DOMAIN EntryFlows(m) : id(i) \notin IdsOf(m) /\ x = id(i)
  <2>1. x \in About(wasm, "EVT_ENTRY_FLOW_MISSING")
          <=> \E d \in ToSet(wasm) : d.code = "EVT_ENTRY_FLOW_MISSING" /\ d.about = x
    BY AboutIs
  <2>2. \A d \in ToSet(wasm) : d.code = "EVT_ENTRY_FLOW_MISSING" => d \in flow
    BY <1>2, <1>3, <1>4, KindsAre
  <2>3. \A d \in flow : d.code = "EVT_ENTRY_FLOW_MISSING" =>
          \E i \in DOMAIN EntryFlows(m) : id(i) \notin IdsOf(m) /\ d = EntryMissing(id(i))
    BY <1>5, KindsAre
  <2>4. \A i \in DOMAIN EntryFlows(m) :
          id(i) \notin IdsOf(m) => EntryMissing(id(i)) \in ToSet(wasm)
    BY <1>2, <1>5
  <2> QED
    BY <2>1, <2>2, <2>3, <2>4, KindsAre
<1>9. ASSUME NEW x \in About(wasm, "EVT_HANDLER_FLOW_MISSING")
      PROVE  \E i \in DOMAIN EntryFlows(m) : x = id(i) /\ x \in HandlerIds \ IdsOf(m)
  <2>1. PICK d \in ToSet(wasm) : d.code = "EVT_HANDLER_FLOW_MISSING" /\ d.about = x
    BY AboutIs
  <2>2. d \in flow
    BY <1>2, <1>3, <1>4, <2>1, KindsAre
  <2> QED
    BY <1>5, <2>1, <2>2, KindsAre
<1> QED
  BY <1>7, <1>8, <1>9 DEF m

LEMMA EventRefsAre ==
  ASSUME NEW m
  PROVE  \A x : x \in EventRefs(m) <=>
           \E i \in DOMAIN m.providers : x \in RefsOf(m.providers[i]) /\ x \in EventFiles
<1> DEFINE all == UNION {RefsOf(m.providers[i]) : i \in DOMAIN m.providers}
<1>1. \A x : x \in all <=> \E i \in DOMAIN m.providers : x \in RefsOf(m.providers[i])
  OBVIOUS
<1>2. EventRefs(m) = all \cap EventFiles
  BY DEF EventRefs
<1> HIDE DEF all
<1> QED
  BY <1>1, <1>2

LEMMA AgreeAtEnd == HostInv => VerdictsAgree
<1> SUFFICES ASSUME HostInv, toRun = {}
             PROVE  VerdictsAgree
  BY DEF VerdictsAgree
<1> DEFINE m == manifest
<1>1. m \in Manifests
  BY DEF HostInv, HostTypeOK
<1>2. ASSUME IsEventsPack(m), IsEventsPackByFiles(m)
      PROVE  About(native, "EVT_INVALID_TOPIC") = About(wasm, "EVT_INVALID_TOPIC")
  <2>1. Topic(m) # Absent => (IsValidTopic(Topic(m)) <=> TopicPasses(Topic(m)))
    BY <1>1, TopicTyped, TopicTestsAgree
  <2>2. \A x : x \in About(native, "EVT_INVALID_TOPIC")
                 <=> x \in About(wasm, "EVT_INVALID_TOPIC")
    BY <1>2, <2>1, NativeAbout, WasmAbout
  <2> QED
    BY <2>2
<1>3. ASSUME HandlerFlowApplies(m), IsEventsPackByFiles(m)
      PROVE  /\ About(native, "EVT_ENTRY_FLOW_MISSING") = About(wasm, "EVT_ENTRY_FLOW_MISSING")
             /\ About(wasm, "EVT_HANDLER_FLOW_MISSING")
                  \subseteq About(native, "EVT_HANDLER_FLOW_MISSING")
  <2>1. \A x : x \in About(native, "EVT_ENTRY_FLOW_MISSING")
                 <=> x \in About(wasm, "EVT_ENTRY_FLOW_MISSING")
    BY <1>3, NativeAbout, WasmAbout
  <2>2. ASSUME NEW x \in About(wasm, "EVT_HANDLER_FLOW_MISSING")
        PROVE  x \in About(native, "EVT_HANDLER_FLOW_MISSING")
    <3>1. PICK i \in DOMAIN EntryFlows(m) :
            x = EntryFlows(m)[i] /\ x \in HandlerIds \ IdsOf(m)
      BY <1>3, WasmAbout
    <3>2. Unhandled(m, EntryFlows(m)[i])
      BY <3>1 DEF Unhandled
    <3> QED
      BY <1>3, <3>1, <3>2, NativeAbout
  <2> QED
    BY <2>1, <2>2
<1>4. ASSUME IsEventsPack(m), ~IsEventsPackByFiles(m)
      PROVE  EventRefs(m) \ m.files # {}
  <2>1. PICK i \in DOMAIN m.providers : RefsOf(m.providers[i]) \cap EventFiles # {}
    BY <1>4 DEF IsEventsPack, IsEventsPackByFiles
  <2>2. PICK ref \in RefsOf(m.providers[i]) : ref \in EventFiles
    BY <2>1
  <2>3. ref \in EventRefs(m)
    BY <2>2, EventRefsAre
  <2>4. ref \notin m.files
    BY <1>4, <2>2 DEF IsEventsPackByFiles
  <2> QED
    BY <2>3, <2>4
<1>5. ASSUME ~IsEventsPack(m), IsEventsPackByFiles(m)
      PROVE  m.files \cap EventFiles # {} /\ EventRefs(m) = {}
  <2>1. m.files \cap EventFiles # {}
    BY <1>5 DEF IsEventsPack, IsEventsPackByFiles
  <2>2. \A i \in DOMAIN m.providers : RefsOf(m.providers[i]) \cap EventFiles = {}
    BY <1>5 DEF IsEventsPack
  <2> QED
    BY <2>1, <2>2, EventRefsAre
<1> QED
  BY <1>2, <1>3, <1>4, <1>5 DEF VerdictsAgree

LEMMA SoundAtEnd == HostInv => AcceptedIsSound
<1> SUFFICES ASSUME HostInv, toRun = {}, NoErrors, IsEventsPack(manifest)
             PROVE  AcceptedIsSound
  BY DEF AcceptedIsSound
<1> DEFINE m == manifest
<1>1. m \in Manifests
  BY DEF HostInv, HostTypeOK
<1>2. \A d \in ToSet(native) \cup ToSet(wasm) : d.severity # "error"
  BY DEF NoErrors, ToSet
<1>3. /\ \A d \in ToSet(ProviderDeclFindings(m)) : d.severity # "error"
      /\ \A d \in ToSet(TopicTypeFindings(m)) : d.severity # "error"
      /\ HandlerFlowApplies(m) => \A d \in ToSet(HandlerFlowFindings(m)) : d.severity # "error"
  BY <1>2, HostDone
<1>4. IsEventsPackByFiles(m) =>
        /\ \A d \in ToSet(SchemaFindings(m)) : d.severity # "error"
        /\ \A d \in ToSet(EntryFlowFindings(m)) : d.severity # "error"
  BY <1>2, HostDone
<1>5. ASSUME Topic(m) # Absent
      PROVE  Len(Topic(m)) > 1 /\ ~Contains(Topic(m), "bad") /\ Topic(m)[1] # "dashed"
  <2>1. IsValidTopic(Topic(m))
    BY <1>3, <1>5, TopicTypeFinds, KindsAre
  <2> QED
    BY <1>1, <1>5, <2>1, TopicTyped, TopicTestsAgree
<1>6. ASSUME NEW i \in DOMAIN m.providers
      PROVE  m.providers[i].config # "blank"
  BY <1>1, <1>3, ProviderDeclFinds, KindsAre
<1>7. ASSUME NEW i \in DOMAIN m.flows, m.flows[i].id \in HandlerIds
      PROVE  m.flows[i].v1
  <2>1. IdsOf(m) \cap (HandlerIds \cup OnIds) # {}
    BY <1>7 DEF IdsOf
  <2>2. HandlerFlowApplies(m)
    BY <2>1 DEF HandlerFlowApplies
  <2> QED
    BY <1>1, <1>3, <1>7, <2>2, HandlerFlowFinds, KindsAre
<1>8. ASSUME NEW id \in ToSet(EntryFlows(m)) \cap HandlerIds
      PROVE  id \in IdsOf(m)
  <2>1. PICK i \in DOMAIN EntryFlows(m) : EntryFlows(m)[i] = id
    BY DEF ToSet
  <2>2. HandlerFlowApplies(m)
    BY <2>1 DEF HandlerFlowApplies
  <2> QED
    BY <1>1, <1>3, <2>1, <2>2, HandlerFlowFinds, KindsAre
<1>9. ASSUME HasEventsMark(m)
      PROVE  /\ ToSet(EntryFlows(m)) \subseteq IdsOf(m)
             /\ \A i \in DOMAIN m.providers :
                  RefsOf(m.providers[i]) \cap Paths \subseteq m.files
  <2>1. IsEventsPackByFiles(m)
    BY <1>9 DEF HasEventsMark, IsEventsPackByFiles
  <2>2. \A i \in DOMAIN EntryFlows(m) : EntryFlows(m)[i] \in IdsOf(m)
    BY <1>1, <1>4, <2>1, EntryFlowFinds, KindsAre
  <2>3. ASSUME NEW i \in DOMAIN m.providers
        PROVE  ~Dangling(m, m.providers[i].config) /\ ~Dangling(m, m.providers[i].state)
    BY <1>1, <1>4, <2>1, SchemaFinds, KindsAre
  <2> QED
    BY <2>2, <2>3 DEF ToSet, RefsOf, Dangling
<1> QED
  BY <1>5, <1>6, <1>7, <1>8, <1>9 DEF AcceptedIsSound

\* Each of the two lists of diagnostics holds exactly what the validators
\* that have run, and that apply to the pack, find in it, whatever the order
\* in which the host runs them.
THEOREM FindingsExact == HostSpec => []HostInv
<1>1. HostInit => HostInv
  BY HostInitInv
<1>2. HostInv /\ [HostNext]_hostVars => HostInv'
  BY HostStep
<1> QED
  BY <1>1, <1>2, PTL DEF HostSpec

\* On every manifest the native validators and the WASM component agree about
\* the topic, the missing entry flows and the missing handlers of a pack both
\* take for theirs, and they differ on whose pack it is only over event
\* schemas.
THEOREM ValidatorsAgree == HostSpec => []VerdictsAgree
<1>1. HostInv => VerdictsAgree
  BY AgreeAtEnd
<1> QED
  BY <1>1, FindingsExact, PTL

\* On every manifest, an events pack that neither side has an error for is in
\* order: its topic, the schemas its providers name, its handler flows and,
\* where it is marked as an events pack, its entry flows and schema files.
THEOREM AcceptedPacksSound == HostSpec => []AcceptedIsSound
<1>1. HostInv => AcceptedIsSound
  BY SoundAtEnd
<1> QED
  BY <1>1, FindingsExact, PTL

=========================================================================
