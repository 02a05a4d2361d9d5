----------------------- MODULE InstallRoutingProofs -----------------------
(***************************************************************************)
(* Theorems about InstallRouting, for all installs, providers passed in    *)
(* and references.                                                         *)
(***************************************************************************)
EXTENDS InstallRouting, FiniteSetTheorems, SequenceTheorems, TLAPS

---------------------------------------------------------------------------
(* The invariant *)

Working == pc \in {"read", "build"}

TypeOK ==
  /\ mode \in {"sink", "source"}
  /\ pc \in {"list", "next", "read", "build", "done"}
  /\ at \in Nat /\ lists \in Nat
  /\ installed \subseteq Keys /\ todo \subseteq Keys
  /\ started \in [Keys -> Nat] /\ listed \in [Keys -> Nat]
  /\ DOMAIN router \subseteq Keys
  /\ \E S : diags \in Seq(S)

\* Between two providers nothing is left to do, and what is in hand is not.
Control ==
  /\ pc \in {"list", "done"} => todo = {}
  /\ Working => current \in Keys \ todo

\* The router holds what was built, each in its own place.
Routed ==
  mode = "sink" =>
    \A k \in Keys : /\ started[k] > 0 <=> k \in DOMAIN router
                    /\ k \in DOMAIN router => router[k] = k

\* Events are emitted through the finished router only.
Emitted ==
  \A d \in delivered :
    /\ pc = "done" /\ mode = "sink" /\ d.asked \in Keys
    /\ d.by = IF started[d.asked] > 0 THEN d.asked ELSE None

\* The code of a diagnostic was made from its message.
Coded ==
  \A i \in DOMAIN diags :
    diags[i].message # None => diags[i].code = CodeOf(diags[i].message)

\* A listed install that has no answer yet is still to do or in hand.
Owed(k) == k \in todo \/ (Working /\ current = k)

Counted ==
  \A k \in Keys :
    listed[k] = started[k] + Cardinality(DiagnosedInstall(k)) + (IF Owed(k) THEN 1 ELSE 0)

Unlisted == {i \in DOMAIN diags : diags[i].install = None}

\* Providers the pass is through with were listed or diagnosed.
Placed ==
  /\ pc = "list" => at = lists + Cardinality(Unlisted) + 1
  /\ pc = "next" \/ Working => at = lists + Cardinality(Unlisted)
  /\ pc = "done" => Len(Selected) = lists + Cardinality(Unlisted)

IInv == TypeOK /\ Control /\ Routed /\ Emitted /\ Coded /\ Counted /\ Placed

---------------------------------------------------------------------------
(* Diagnostics *)

LEMMA OneMore ==
  ASSUME NEW n \in Nat, NEW A \in SUBSET (1 .. n)
  PROVE  /\ Cardinality(A) \in Nat
         /\ Cardinality(A \cup {n + 1}) = Cardinality(A) + 1
<1>1. IsFiniteSet(1 .. n)
  BY FS_Interval
<1>2. IsFiniteSet(A)
  BY <1>1, FS_Subset
<1>3. n + 1 \notin A
  OBVIOUS
<1> QED
  BY <1>2, <1>3, FS_AddElement, FS_CardinalityType

LEMMA CountsAreNat ==
  ASSUME TypeOK
  PROVE  /\ \A k \in Keys : Cardinality(DiagnosedInstall(k)) \in Nat
         /\ Cardinality(Unlisted) \in Nat
<1>1. PICK S : diags \in Seq(S)
  BY DEF TypeOK
<1>2. Len(diags) \in Nat /\ DOMAIN diags = 1 .. Len(diags)
  BY <1>1, LenProperties
<1>3. Unlisted \in SUBSET (1 .. Len(diags))
  BY <1>2 DEF Unlisted
<1>4. \A k \in Keys : DiagnosedInstall(k) \in SUBSET (1 .. Len(diags))
  BY <1>2 DEF DiagnosedInstall
<1> QED
  BY <1>2, <1>3, <1>4, OneMore

\* A diagnostic is counted where it belongs, and nowhere else.
LEMMA Diagnosed ==
  ASSUME TypeOK, NEW provider, NEW install, NEW code, NEW message,
         Diagnose(provider, install, code, message)
  PROVE  /\ \E S : diags' \in Seq(S)
         /\ \A k \in Keys : Cardinality(DiagnosedInstall(k))' =
              Cardinality(DiagnosedInstall(k))
                + IF k.provider = provider /\ k.install = install THEN 1 ELSE 0
         /\ Cardinality(Unlisted)' =
              Cardinality(Unlisted) + IF install = None THEN 1 ELSE 0
         /\ \A i \in DOMAIN diags' :
              \/ i \in DOMAIN diags /\ diags'[i] = diags[i]
              \/ diags'[i].code = code /\ diags'[i].message = message
<1> DEFINE d == [provider |-> provider, install |-> install,
                 code |-> code, message |-> message]
           n == Len(diags)
<1>1. PICK S : diags \in Seq(S)
  BY DEF TypeOK
<1>2. diags \in Seq(S \cup {d}) /\ d \in S \cup {d} /\ diags' = Append(diags, d)
  BY <1>1, SeqMonotonic DEF Diagnose
<1>d. /\ d.provider = provider /\ d.install = install
      /\ d.code = code /\ d.message = message
  OBVIOUS
<1> HIDE DEF d
<1>3. /\ n \in Nat /\ DOMAIN diags = 1 .. n
      /\ diags' \in Seq(S \cup {d}) /\ Len(diags') = n + 1 /\ DOMAIN diags' = 1 .. (n + 1)
      /\ \A i \in 1 .. n : diags'[i] = diags[i]
      /\ diags'[n + 1] = d
  <2>1. n \in Nat /\ DOMAIN diags = 1 .. n
    BY <1>1, LenProperties
  <2>2. /\ diags' \in Seq(S \cup {d}) /\ Len(diags') = n + 1
        /\ \A i \in 1 .. n : diags'[i] = diags[i]
        /\ diags'[n + 1] = d
    BY <1>2, <2>1, AppendProperties
  <2>3. DOMAIN diags' = 1 .. Len(diags')
    BY <2>2, LenProperties
  <2> QED
    BY <2>1, <2>2, <2>3
<1> HIDE DEF n
<1>4. ASSUME NEW k \in Keys
      PROVE  Cardinality(DiagnosedInstall(k))' =
               Cardinality(DiagnosedInstall(k))
                 + IF k.provider = provider /\ k.install = install THEN 1 ELSE 0
  <2>1. DiagnosedInstall(k) \in SUBSET (1 .. n)
    BY <1>3 DEF DiagnosedInstall
  <2>2. DiagnosedInstall(k)' =
          IF k.provider = provider /\ k.install = install
          THEN DiagnosedInstall(k) \cup {n + 1} ELSE DiagnosedInstall(k)
    BY <1>3, <1>d DEF DiagnosedInstall
  <2>3. /\ Cardinality(DiagnosedInstall(k)) \in Nat
        /\ Cardinality(DiagnosedInstall(k) \cup {n + 1}) = Cardinality(DiagnosedInstall(k)) + 1
    BY <1>3, <2>1, OneMore
  <2>4. CASE k.provider = provider /\ k.install = install
    BY <2>2, <2>3, <2>4
  <2>5. CASE ~(k.provider = provider /\ k.install = install)
    BY <2>2, <2>3, <2>5
  <2> QED
    BY <2>4, <2>5
<1>5. Cardinality(Unlisted)' = Cardinality(Unlisted) + IF install = None THEN 1 ELSE 0
  <2>1. Unlisted \in SUBSET (1 .. n)
    BY <1>3 DEF Unlisted
  <2>2. Unlisted' = IF install = None THEN Unlisted \cup {n + 1} ELSE Unlisted
    BY <1>3, <1>d DEF Unlisted
  <2>3. /\ Cardinality(Unlisted) \in Nat
        /\ Cardinality(Unlisted \cup {n + 1}) = Cardinality(Unlisted) + 1
    BY <1>3, <2>1, OneMore
  <2>4. CASE install = None
    BY <2>2, <2>3, <2>4
  <2>5. CASE install # None
    BY <2>2, <2>3, <2>5
  <2> QED
    BY <2>4, <2>5
<1>6. \A i \in DOMAIN diags' :
        \/ i \in DOMAIN diags /\ diags'[i] = diags[i]
        \/ diags'[i].code = code /\ diags'[i].message = message
  BY <1>3, <1>d
<1> QED
  BY <1>3, <1>4, <1>5, <1>6

---------------------------------------------------------------------------
(* The steps *)

LEMMA InitIInv == Init => IInv
<1> SUFFICES ASSUME Init PROVE IInv
  OBVIOUS
<1>1. DOMAIN diags = {} /\ diags \in Seq({})
  BY EmptySeq DEF Init
<1>2. TypeOK
  <2>1. /\ mode \in {"sink", "source"} /\ pc \in {"list", "next", "read", "build", "done"}
        /\ at \in Nat /\ lists \in Nat /\ installed \subseteq Keys /\ todo \subseteq Keys
        /\ started \in [Keys -> Nat] /\ listed \in [Keys -> Nat]
    BY DEF Init
  <2>2. DOMAIN router \subseteq Keys
    BY DEF Init
  <2> QED
    BY <1>1, <2>1, <2>2 DEF TypeOK
<1>3. Control /\ Emitted
  BY DEF Init, Control, Emitted, Working
<1>4. Routed
  BY DEF Init, Routed
<1>5. Coded
  BY <1>1 DEF Coded
<1>6. Unlisted = {} /\ \A k \in Keys : DiagnosedInstall(k) = {}
  BY <1>1 DEF Unlisted, DiagnosedInstall
<1>7. Counted
  BY <1>6, FS_EmptySet DEF Init, Counted, Owed, Working
<1>8. Placed
  <2>1. Cardinality(Unlisted) = 0 /\ at = 1 /\ lists = 0 /\ pc \in {"list", "done"}
    BY <1>6, FS_EmptySet DEF Init
  <2>2. pc = "done" => Len(Selected) = 0
    <3>1. pc = "done" => Selected = <<>>
      BY DEF Init
    <3>2. Len(<<>>) = 0
      BY EmptySeq
    <3> QED
      BY <3>1, <3>2
  <2> QED
    BY <2>1, <2>2 DEF Placed, Working
<1> QED
  BY <1>2, <1>3, <1>4, <1>5, <1>7, <1>8 DEF IInv

\* Two installs are one if provider and install id are.
LEMMA KeysDiffer ==
  ASSUME NEW k \in Keys, NEW l \in Keys, k.provider = l.provider, k.install = l.install
  PROVE  k = l
BY RoutingAssumption DEF RoutingAssumption

\* An install in hand that is diagnosed and done with
LEMMA HandDiagnosed ==
  ASSUME IInv, Working, NEW code, NEW message,
         Diagnose(current.provider, current.install, code, message),
         message # None => code = CodeOf(message), Continue,
         UNCHANGED <<installed, pass, todo, current, resolved, router, started>>
  PROVE  IInv'
<1> USE DEF IInv
<1>1. /\ current \in Keys \ todo /\ todo \subseteq Keys /\ current.install # None
      /\ UNCHANGED <<installed, mode, lists, listed, delivered, todo, started, router>>
  BY RoutingAssumption DEF RoutingAssumption, Control, pass, TypeOK
<1>2. /\ \E S : diags' \in Seq(S)
      /\ \A k \in Keys : Cardinality(DiagnosedInstall(k))' =
           Cardinality(DiagnosedInstall(k))
             + IF k.provider = current.provider /\ k.install = current.install THEN 1 ELSE 0
      /\ Cardinality(Unlisted)' = Cardinality(Unlisted)
           + IF current.install = None THEN 1 ELSE 0
      /\ \A i \in DOMAIN diags' :
           \/ i \in DOMAIN diags /\ diags'[i] = diags[i]
           \/ diags'[i].code = code /\ diags'[i].message = message
  BY Diagnosed
<1>3. \/ todo = {} /\ at' = at + 1 /\ pc' = IF at = Len(Selected) THEN "done" ELSE "list"
      \/ todo # {} /\ at' = at /\ pc' = "next"
  BY DEF Continue, NextSpec
<1>4. Cardinality(Unlisted)' = Cardinality(Unlisted) /\ Cardinality(Unlisted) \in Nat
  BY <1>1, <1>2, CountsAreNat
<1>5. TypeOK'
  BY <1>1, <1>2, <1>3 DEF TypeOK
<1>6. Control' /\ ~Working'
  BY <1>1, <1>3 DEF Control, Working
<1>7. Routed' /\ Emitted'
  BY <1>1 DEF Routed, Emitted, Working
<1>8. Coded'
  BY <1>2 DEF Coded, CodeOf, Says
<1>9. Counted'
  <2> SUFFICES ASSUME NEW k \in Keys
               PROVE  listed'[k] = started'[k] + Cardinality(DiagnosedInstall(k))'
                                     + (IF Owed(k)' THEN 1 ELSE 0)
    BY DEF Counted
  <2>1. /\ Cardinality(DiagnosedInstall(k)) \in Nat /\ started[k] \in Nat /\ listed[k] \in Nat
        /\ listed[k] = started[k] + Cardinality(DiagnosedInstall(k))
                         + (IF Owed(k) THEN 1 ELSE 0)
        /\ listed'[k] = listed[k] /\ started'[k] = started[k]
    BY <1>1, CountsAreNat DEF Counted, TypeOK
  <2>2. CASE k = current
    <3>1. Owed(k) /\ ~Owed(k)'
      BY <1>1, <1>6, <2>2 DEF Owed
    <3>2. Cardinality(DiagnosedInstall(k))' = Cardinality(DiagnosedInstall(k)) + 1
      BY <1>2, <2>2
    <3> QED
      BY <2>1, <3>1, <3>2
  <2>3. CASE k # current
    <3>1. Owed(k) <=> Owed(k)'
      BY <1>1, <1>6, <2>3 DEF Owed
    <3>2. ~(k.provider = current.provider /\ k.install = current.install)
      BY <1>1, <2>3, KeysDiffer
    <3>3. Cardinality(DiagnosedInstall(k))' = Cardinality(DiagnosedInstall(k))
      BY <1>2, <2>1, <3>2
    <3> QED
      BY <2>1, <3>1, <3>3
  <2> QED
    BY <2>2, <2>3
<1>10. Placed'
  <2>1. Selected' = Selected
    BY <1>1 DEF Selected
  <2> QED
    BY <1>1, <1>3, <1>4, <1>6, <2>1 DEF Placed, TypeOK, Working
<1> QED
  BY <1>5, <1>6, <1>7, <1>8, <1>9, <1>10

\* Diagnostics that stay as they are keep their counts.
LEMMA SameDiagnostics ==
  ASSUME UNCHANGED diags
  PROVE  /\ Unlisted' = Unlisted
         /\ \A k \in Keys : DiagnosedInstall(k)' = DiagnosedInstall(k)
         /\ Coded => Coded'
BY DEF Unlisted, DiagnosedInstall, Coded, CodeOf, Says

LEMMA StepIInv == IInv /\ [Next]_vars => IInv'
<1> SUFFICES ASSUME IInv, [Next]_vars
             PROVE  IInv'
  OBVIOUS
<1> USE DEF IInv
<1>c. /\ Cardinality(Unlisted) \in Nat
      /\ \A k \in Keys : Cardinality(DiagnosedInstall(k)) \in Nat
  BY CountsAreNat
<1>s. mode' = mode => Selected' = Selected
  BY DEF Selected
<1>1. CASE List
  <2>1. /\ pc = "list" /\ todo = {} /\ lists' = lists + 1
        /\ todo' = {k \in installed : k.provider = Selected[at].name}
        /\ listed' = [k \in Keys |-> IF k \in todo' THEN listed[k] + 1 ELSE listed[k]]
        /\ UNCHANGED <<installed, mode, delivered, current, router, diags, started>>
        /\ \/ todo' = {} /\ at' = at + 1 /\ pc' = IF at = Len(Selected) THEN "done" ELSE "list"
           \/ todo' # {} /\ at' = at /\ pc' = "next"
    BY <1>1 DEF List, Control, NextSpec
  <2>2. todo' \subseteq Keys
    BY <2>1 DEF TypeOK
  <2>3. TypeOK'
    BY <2>1, <2>2 DEF TypeOK
  <2>4. Control' /\ Routed' /\ Emitted'
    BY <2>1 DEF Control, Routed, Emitted, Working
  <2>5. Coded'
    BY <2>1, SameDiagnostics
  <2>6. Counted'
    <3> SUFFICES ASSUME NEW k \in Keys
                 PROVE  listed'[k] = started'[k] + Cardinality(DiagnosedInstall(k)')
                                       + (IF Owed(k)' THEN 1 ELSE 0)
      BY DEF Counted
    <3>1. DiagnosedInstall(k)' = DiagnosedInstall(k)
      BY <2>1, SameDiagnostics
    <3>2. ~Owed(k) /\ (Owed(k)' <=> k \in todo')
      BY <2>1 DEF Owed, Working
    <3>3. listed[k] = started[k] + Cardinality(DiagnosedInstall(k)) /\ started'[k] = started[k]
      BY <1>c, <2>1, <3>2 DEF Counted, TypeOK
    <3>4. listed'[k] = IF k \in todo' THEN listed[k] + 1 ELSE listed[k]
      BY <2>1
    <3> QED
      BY <1>c, <3>1, <3>2, <3>3, <3>4 DEF TypeOK
  <2>7. Placed'
    <3>1. Unlisted' = Unlisted /\ Selected' = Selected
      BY <1>s, <2>1, SameDiagnostics
    <3>2. at = lists + Cardinality(Unlisted) + 1
      BY <2>1 DEF Placed
    <3> QED
      BY <1>c, <2>1, <3>1, <3>2 DEF Placed, TypeOK, Working
  <2> QED
    BY <2>3, <2>4, <2>5, <2>6, <2>7
<1>2. CASE ListFails
  <2>1. /\ pc = "list" /\ todo = {} /\ at' = at + 1
        /\ pc' = IF at = Len(Selected) THEN "done" ELSE "list"
        /\ UNCHANGED <<installed, mode, lists, listed, delivered, todo, current, router, started>>
        /\ Diagnose(Selected[at].name, None, "MalformedInstall", None)
    BY <1>2 DEF ListFails, Control, NextSpec, pass
  <2>2. /\ \E S : diags' \in Seq(S)
        /\ \A k \in Keys : Cardinality(DiagnosedInstall(k))' =
             Cardinality(DiagnosedInstall(k))
               + IF k.provider = Selected[at].name /\ k.install = None THEN 1 ELSE 0
        /\ Cardinality(Unlisted)' = Cardinality(Unlisted) + 1
        /\ \A i \in DOMAIN diags' :
             \/ i \in DOMAIN diags /\ diags'[i] = diags[i]
             \/ diags'[i].message = None
    BY <2>1, Diagnosed
  <2>3. TypeOK'
    BY <2>1, <2>2 DEF TypeOK
  <2>4. Control' /\ Routed' /\ Emitted'
    BY <2>1 DEF Control, Routed, Emitted, Working
  <2>5. Coded'
    BY <2>2 DEF Coded, CodeOf, Says
  <2>6. Counted'
    <3>1. \A k \in Keys : k.install # None
      BY RoutingAssumption DEF RoutingAssumption
    <3>2. \A k \in Keys : Cardinality(DiagnosedInstall(k))' = Cardinality(DiagnosedInstall(k))
      BY <1>c, <2>2, <3>1
    <3>3. \A k \in Keys : Owed(k)' <=> Owed(k)
      BY <2>1 DEF Owed, Working
    <3> QED
      BY <2>1, <3>2, <3>3 DEF Counted
  <2>7. Placed'
    <3>1. Selected' = Selected
      BY <1>s, <2>1
    <3>2. at = lists + Cardinality(Unlisted) + 1
      BY <2>1 DEF Placed
    <3>3. at' = lists' + Cardinality(Unlisted)' + 1
      BY <1>c, <2>1, <2>2, <3>2 DEF TypeOK
    <3>4. CASE at = Len(Selected)
      <4>1. pc' = "done" /\ Len(Selected') = lists' + Cardinality(Unlisted)'
        BY <1>c, <2>1, <2>2, <3>1, <3>2, <3>4 DEF TypeOK
      <4> QED
        BY <4>1 DEF Placed, Working
    <3>5. CASE at # Len(Selected)
      BY <2>1, <3>3, <3>5 DEF Placed, Working
    <3> QED
      BY <3>4, <3>5
  <2> QED
    BY <2>3, <2>4, <2>5, <2>6, <2>7
<1>3. ASSUME NEW k \in Keys, Begin(k)
      PROVE  IInv'
  <2>1. /\ pc = "next" /\ k \in todo /\ todo' = todo \ {k} /\ current' = k
        /\ pc' \in {"build", "read"}
        /\ UNCHANGED <<installed, mode, lists, listed, delivered, at, router, diags, started>>
    BY <1>3 DEF Begin, pass
  <2>2. TypeOK' /\ Control'
    BY <2>1 DEF TypeOK, Control, Working
  <2>3. Routed' /\ Emitted'
    BY <2>1 DEF Routed, Emitted
  <2>4. \A l \in Keys : Owed(l)' <=> Owed(l)
    BY <2>1 DEF Owed, Working
  <2>5. Coded' /\ Counted'
    BY <2>1, <2>4, SameDiagnostics DEF Counted
  <2>6. Placed'
    BY <1>s, <2>1, SameDiagnostics DEF Placed, Working
  <2> QED
    BY <2>2, <2>3, <2>5, <2>6
<1>4. CASE Read
  <2>1. /\ pc = "read" /\ pc' \in {"build", "read"}
        /\ UNCHANGED <<installed, mode, lists, listed, delivered, at, todo, current, router,
                       diags, started>>
    BY <1>4 DEF Read, pass
  <2>2. TypeOK' /\ Control' /\ Routed' /\ Emitted'
    BY <2>1 DEF TypeOK, Control, Routed, Emitted, Working
  <2>3. \A l \in Keys : Owed(l)' <=> Owed(l)
    BY <2>1 DEF Owed, Working
  <2>4. Coded' /\ Counted'
    BY <2>1, <2>3, SameDiagnostics DEF Counted
  <2>5. Placed'
    BY <1>s, <2>1, SameDiagnostics DEF Placed, Working
  <2> QED
    BY <2>2, <2>4, <2>5
<1>5. CASE ReadFails
  <2> DEFINE message == Refs(current)[resolved + 1]
  <2>1. /\ Working /\ Continue
        /\ Diagnose(current.provider, current.install, CodeOf(message), message)
        /\ UNCHANGED <<installed, pass, todo, current, resolved, router, started>>
    BY <1>5 DEF ReadFails, Working
  <2> HIDE DEF message
  <2> QED
    BY <2>1, HandDiagnosed
<1>6. CASE BuildFails
  <2>1. /\ Working /\ Continue
        /\ Diagnose(current.provider, current.install, "ProviderInitFailed", None)
        /\ UNCHANGED <<installed, pass, todo, current, resolved, router, started>>
    BY <1>6 DEF BuildFails, Working
  <2> QED
    BY <2>1, HandDiagnosed
<1>7. CASE Build
  <2>1. /\ pc = "build" /\ current \in Keys \ todo
        /\ started' = [started EXCEPT ![current] = @ + 1]
        /\ router' = IF mode = "source" THEN router
                     ELSE [k \in DOMAIN router \cup {current} |->
                             IF k = current THEN current ELSE router[k]]
        /\ UNCHANGED <<installed, mode, lists, listed, delivered, todo, current, diags>>
        /\ \/ todo = {} /\ at' = at + 1 /\ pc' = IF at = Len(Selected) THEN "done" ELSE "list"
           \/ todo # {} /\ at' = at /\ pc' = "next"
    BY <1>7 DEF Build, Continue, NextSpec, RouterKey, pass, Control, Working
  <2>2. TypeOK'
    <3>1. DOMAIN router' \subseteq Keys
      BY <2>1 DEF TypeOK
    <3>2. started' \in [Keys -> Nat]
      BY <2>1 DEF TypeOK
    <3> QED
      BY <2>1, <3>1, <3>2 DEF TypeOK
  <2>3. Control' /\ Emitted' /\ ~Working'
    BY <2>1 DEF Control, Emitted, Working
  <2>4. Routed'
    <3> SUFFICES ASSUME mode = "sink", NEW k \in Keys
                 PROVE  /\ started'[k] > 0 <=> k \in DOMAIN router'
                        /\ k \in DOMAIN router' => router'[k] = k
      BY <2>1 DEF Routed
    <3>1. DOMAIN router' = DOMAIN router \cup {current}
      BY <2>1
    <3>2. CASE k = current
      <4>1. started[k] \in Nat /\ started'[k] = started[k] + 1
        BY <2>1, <3>2 DEF TypeOK
      <4>2. started'[k] > 0
        BY <4>1
      <4>3. k \in DOMAIN router' /\ router'[k] = k
        BY <2>1, <3>1, <3>2
      <4> QED
        BY <4>2, <4>3
    <3>3. CASE k # current
      <4>1. started'[k] = started[k]
        BY <2>1, <3>3 DEF TypeOK
      <4>2. k \in DOMAIN router' <=> k \in DOMAIN router
        BY <3>1, <3>3
      <4>3. k \in DOMAIN router => router'[k] = router[k]
        BY <2>1, <3>3
      <4> QED
        BY <4>1, <4>2, <4>3 DEF Routed
    <3> QED
      BY <3>2, <3>3
  <2>5. Coded'
    BY <2>1, SameDiagnostics
  <2>6. Counted'
    <3> SUFFICES ASSUME NEW k \in Keys
                 PROVE  listed'[k] = started'[k] + Cardinality(DiagnosedInstall(k)')
                                       + (IF Owed(k)' THEN 1 ELSE 0)
      BY DEF Counted
    <3>1. DiagnosedInstall(k)' = DiagnosedInstall(k) /\ listed' = listed
      BY <2>1, SameDiagnostics
    <3>2. /\ listed[k] = started[k] + Cardinality(DiagnosedInstall(k))
                           + (IF Owed(k) THEN 1 ELSE 0)
          /\ started[k] \in Nat /\ listed[k] \in Nat
      BY DEF Counted, TypeOK
    <3>3. CASE k = current
      <4>1. Owed(k) /\ ~Owed(k)' /\ started'[k] = started[k] + 1
        BY <2>1, <2>3, <3>3 DEF Owed, Working, TypeOK
      <4> QED
        BY <1>c, <3>1, <3>2, <4>1
    <3>4. CASE k # current
      <4>1. (Owed(k)' <=> Owed(k)) /\ started'[k] = started[k]
        BY <2>1, <2>3, <3>4 DEF Owed, Working, TypeOK
      <4> QED
        BY <1>c, <3>1, <3>2, <4>1
    <3> QED
      BY <3>3, <3>4
  <2>7. Placed'
    <3>1. Unlisted' = Unlisted /\ Selected' = Selected
      BY <1>s, <2>1, SameDiagnostics
    <3>2. at = lists + Cardinality(Unlisted)
      BY <2>1 DEF Placed, Working
    <3> QED
      BY <1>c, <2>1, <2>3, <3>1, <3>2 DEF Placed, TypeOK
  <2> QED
    BY <2>2, <2>3, <2>4, <2>5, <2>6, <2>7
<1>8. ASSUME NEW k \in Keys, Emit(k)
      PROVE  IInv'
  <2>1. /\ pc = "done" /\ mode = "sink"
        /\ delivered' = delivered \cup
             {[asked |-> k, by |-> IF k \in DOMAIN router THEN router[k] ELSE None]}
        /\ UNCHANGED <<installed, mode, lists, listed, pc, at, todo, current, router, diags,
                       started>>
    BY <1>8 DEF Emit, RouterKey
  <2>2. Emitted'
    <3>1. (IF k \in DOMAIN router THEN router[k] ELSE None)
            = IF started[k] > 0 THEN k ELSE None
      BY <2>1 DEF Routed
    <3> QED
      BY <2>1, <3>1 DEF Emitted
  <2>3. TypeOK' /\ Control' /\ Routed'
    BY <2>1 DEF TypeOK, Control, Routed, Working
  <2>4. \A l \in Keys : Owed(l)' <=> Owed(l)
    BY <2>1 DEF Owed, Working
  <2>5. Coded' /\ Counted'
    BY <2>1, <2>4, SameDiagnostics DEF Counted
  <2>6. Placed'
    BY <1>s, <2>1, SameDiagnostics DEF Placed, Working
  <2> QED
    BY <2>2, <2>3, <2>5, <2>6
<1>9. CASE (\E k \in Keys : Provision(k)) \/ UNCHANGED vars
  <2>1. /\ installed' \in SUBSET Keys
        /\ UNCHANGED <<mode, lists, listed, delivered, pc, at, todo, current, router, diags,
                       started>>
    BY <1>9 DEF Provision, pass, vars, TypeOK
  <2>2. TypeOK' /\ Control' /\ Routed' /\ Emitted'
    BY <2>1 DEF TypeOK, Control, Routed, Emitted, Working
  <2>3. \A l \in Keys : Owed(l)' <=> Owed(l)
    BY <2>1 DEF Owed, Working
  <2>4. Coded' /\ Counted'
    BY <2>1, <2>3, SameDiagnostics DEF Counted
  <2>5. Placed'
    BY <1>s, <2>1, SameDiagnostics DEF Placed, Working
  <2> QED
    BY <2>2, <2>4, <2>5
<1> QED
  BY <1>1, <1>2, <1>3, <1>4, <1>5, <1>6, <1>7, <1>8, <1>9 DEF Next, Progress

---------------------------------------------------------------------------
(* The theorems *)

\* When the pass is over, every install that was listed was built or started
\* or has a diagnostic, as often as it was listed, and every provider was
\* listed or has one: build_sink_router and start_sources pass over nothing.
THEOREM AllAnswered == Spec => []EveryInstallAnswered
<1>1. IInv => EveryInstallAnswered
  <2> SUFFICES ASSUME IInv, pc = "done"
               PROVE  /\ \A k \in Keys : listed[k] = started[k] + Cardinality(DiagnosedInstall(k))
                      /\ mode = "sink" =>
                           \A k \in Keys : started[k] > 0 <=> \E r \in DOMAIN router : router[r] = k
                      /\ Len(Selected) = lists + Cardinality(Unlisted)
    BY DEF EveryInstallAnswered, Unlisted
  <2>1. \A k \in Keys : ~Owed(k)
    BY DEF IInv, Control, Owed, Working
  <2>2. \A k \in Keys : listed[k] = started[k] + Cardinality(DiagnosedInstall(k))
    BY <2>1, CountsAreNat DEF IInv, Counted, TypeOK
  <2>3. mode = "sink" =>
          \A k \in Keys : started[k] > 0 <=> \E r \in DOMAIN router : router[r] = k
    BY DEF IInv, Routed, TypeOK
  <2> QED
    BY <2>2, <2>3 DEF IInv, Placed
<1> QED
  BY <1>1, InitIInv, StepIInv, PTL DEF Spec

\* An emitted event goes to the sink built for its provider and install.
THEOREM EmitsAreRouted == Spec => []EmitReachesItsInstall
<1>1. IInv => EmitReachesItsInstall
  BY DEF IInv, Emitted, EmitReachesItsInstall
<1> QED
  BY <1>1, InitIInv, StepIInv, PTL DEF Spec

\* The code of a diagnostic says what is missing, unless a configuration
\* reference speaks of a secret.
THEOREM CodesAreRight == Spec => []DiagnosisNamesTheMissing
<1>1. IInv => DiagnosisNamesTheMissing
  <2> SUFFICES ASSUME IInv, NEW i \in DOMAIN diags, diags[i].message # None
               PROVE  /\ diags[i].message.what = "secret" => diags[i].code = "MissingSecret"
                      /\ diags[i].message.what = "config" /\ diags[i].message.ref \notin SecretTexts
                           => diags[i].code = "MissingConfig"
    BY DEF DiagnosisNamesTheMissing
  <2>1. diags[i].code = CodeOf(diags[i].message)
    BY DEF IInv, Coded
  <2> QED
    BY <2>1 DEF CodeOf, Says
<1> QED
  BY <1>1, InitIInv, StepIInv, PTL DEF Spec

===========================================================================
