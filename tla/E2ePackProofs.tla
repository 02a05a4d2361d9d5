-------------------------- MODULE E2ePackProofs --------------------------
(***************************************************************************)
(* Theorems about E2ePack, for all packs and options, any number of packs, *)
(* and whatever the config flows yield; and about ConfigFlow, that the     *)
(* walk of a flow yields what its trails say, for flows of any size.       *)
(***************************************************************************)
EXTENDS E2ePack, FiniteSetTheorems, SequenceTheorems, WellFoundedInduction, TLAPS

---------------------------------------------------------------------------
(* The inductive invariant *)

Places == {"open", "verdict"} \cup Stages

Diagnostics == Seq(Stages \cup {"pack"})

Reports ==
  [pack : Nat, status : Statuses, stages : [Stages -> Statuses],
   diagnostics : Diagnostics]

TypeOK ==
  /\ Len(packs) \in Nat /\ DOMAIN packs = 1 .. Len(packs)
  /\ options \in Options
  /\ outcome \in {"running", "reported", "error"}
  /\ index \in Nat
  /\ stage \in Places
  /\ phase \in {"ready", "awaiting", "blocked"}
  /\ command \in Nat
  /\ expired \in BOOLEAN
  /\ stages \in [Stages -> Statuses]
  /\ diagnostics \in Diagnostics
  /\ reports \in Seq(Reports)

\* The loop over the packs has pushed a report for each pack before the one
\* it is at.
Loop ==
  /\ index = 0 => reports = <<>> /\ outcome # "reported"
  /\ index # 0 => index = Len(reports) + 1
  /\ index <= Len(packs) + 1
  /\ outcome = "reported" => index = Len(packs) + 1

\* How far a pack has come
Place(s) ==
  IF s = "open" THEN 0
  ELSE IF s = "requirements" THEN 1
  ELSE IF s = "setup" THEN 2
  ELSE IF s = "ingest" THEN 3
  ELSE IF s = "emit" THEN 4
  ELSE IF s = "subscriptions" THEN 5
  ELSE 6

\* A stage that holds may fail all the same where it calls commands or waits.
MayFail(p, s) == ~Holds(p, s, NeedsOf(p)) \/ options.live \/ s \in Waits

\* What a stage the pack is past has left behind.
StageDone(s) ==
  IF Applies(Pack, s, NeedsOf(Pack))
  THEN \/ stages[s] = "Pass" /\ Holds(Pack, s, NeedsOf(Pack))
       \/ /\ stages[s] = "Fail" /\ MayFail(Pack, s)
          /\ \E i \in DOMAIN diagnostics : diagnostics[i] = s
  ELSE stages[s] = "Skip"

\* The state of the pack the loop is at is its own from the start.
Fresh == stages = NoneRun /\ diagnostics = <<>> /\ needs = {} /\ phase = "ready"

\* The pack holds what every stage it passed asks for, by the requirements
\* it has itself.
PackInv ==
  /\ stage = "open" => Fresh
  /\ stage # "open" =>
       /\ Active
       /\ Pack.readable /\ Pack.events /\ ProvidersOf(Pack) # <<>>
  /\ Place(stage) > 1 => stages["requirements"] = "Pass" /\ needs = NeedsOf(Pack)
  /\ \A s \in Stages :
       IF Place(s) < Place(stage) THEN StageDone(s) ELSE stages[s] = "Skip"
  /\ phase # "ready" =>
       /\ stage \in Stages
       /\ Applies(Pack, stage, needs) /\ Holds(Pack, stage, needs)
  /\ phase = "awaiting" => stage \in Waits
  /\ phase = "blocked" => options.live

\* A verdict is neither better nor worse than the pack.
Earned(r, p) ==
  /\ r.status = "Pass" => Deserves(p)
  /\ \/ r.status = "Pass"
     \/ ~Deserves(p)
     \/ options.live
     \/ \E s \in Waits : Applies(p, s, NeedsOf(p))

FailedWhole(r) ==
  r.stages = AllFailed /\ r.status = "Fail" /\ r.diagnostics = <<"pack">>

GoodReport(r, p) ==
  /\ r.status \in {"Pass", "Fail"}
  /\ Earned(r, p)
  /\ StagewiseReport(r, p) \/ FailedWhole(r)

ReportInv == \A i \in DOMAIN reports : reports[i].pack = i /\ GoodReport(reports[i], packs[i])

SummaryInv == outcome = "reported" => summary = Summarize

\* VerdictEarned and ReportAccountsForAll speak of the reports alone; they
\* need what is true of the pack the loop is at.
IInv == TypeOK /\ Loop /\ PackInv /\ ReportInv /\ SummaryInv

---------------------------------------------------------------------------
(* What a pack holds *)

LEMMA StagesAre ==
  Stages = {"requirements", "setup", "ingest", "emit", "subscriptions"}
<1>1. DOMAIN StageNames = 1 .. 5
  BY DEF StageNames
<1>2. Stages = {StageNames[i] : i \in 1 .. 5}
  BY <1>1 DEF Stages
<1>3. \A x : x \in 1 .. 5 <=> x \in {1, 2, 3, 4, 5}
  OBVIOUS
<1>4. Stages = {StageNames[i] : i \in {1, 2, 3, 4, 5}}
  BY <1>2, <1>3
<1> QED
  BY <1>4 DEF StageNames

LEMMA AfterIs ==
  /\ After("requirements") = "setup" /\ After("setup") = "ingest"
  /\ After("ingest") = "emit" /\ After("emit") = "subscriptions"
  /\ After("subscriptions") = "verdict"
<1>1. \A x : x \in DOMAIN StageNames <=> x \in {1, 2, 3, 4, 5}
  BY DEF StageNames
<1>2. /\ (CHOOSE i \in DOMAIN StageNames : StageNames[i] = "requirements") = 1
      /\ (CHOOSE i \in DOMAIN StageNames : StageNames[i] = "setup") = 2
      /\ (CHOOSE i \in DOMAIN StageNames : StageNames[i] = "ingest") = 3
      /\ (CHOOSE i \in DOMAIN StageNames : StageNames[i] = "emit") = 4
  BY <1>1 DEF StageNames
<1> QED
  BY <1>2 DEF After, StageNames

\* The stage behind is the next in order.
LEMMA AfterPlace ==
  ASSUME NEW s \in Stages
  PROVE  /\ After(s) \in Places \ {"open"}
         /\ Place(After(s)) = Place(s) + 1
         /\ \A t \in Stages : Place(t) < Place(s) + 1 <=> (Place(t) < Place(s) \/ t = s)
         /\ Place(s) \in 1 .. 5
         /\ Place(s) = 1 <=> s = "requirements"
  BY StagesAre, AfterIs DEF Places, Place

\* A pack that goes through each of its stages deserves to pass.
LEMMA AllHoldDeserves ==
  ASSUME NEW p, p.readable, p.events, ProvidersOf(p) # <<>>,
         \A s \in Stages : Applies(p, s, NeedsOf(p)) => Holds(p, s, NeedsOf(p))
  PROVE  Deserves(p)
<1>1. Holds(p, "requirements", NeedsOf(p))
  BY StagesAre DEF Applies
<1>2. Holds(p, "setup", NeedsOf(p))
  BY StagesAre DEF Applies
<1>3. KindsOf(p) \cap {"Source", "Bridge"} # {} => Holds(p, "ingest", NeedsOf(p))
  BY StagesAre DEF Applies
<1>4. KindsOf(p) \cap {"Sink", "Bridge"} # {} => Holds(p, "emit", NeedsOf(p))
  BY StagesAre DEF Applies
<1>5. "Broker" \in KindsOf(p) \/ "subscriptions" \in NeedsOf(p) =>
        Holds(p, "subscriptions", NeedsOf(p))
  BY StagesAre DEF Applies
<1>6. RequirementsOf(p)[1] = "valid" /\ ~RequirementsOf(p)[2].blank
  BY <1>1 DEF Holds
<1>7. SetupHolds(p, NeedsOf(p))
  BY <1>2 DEF Holds
<1>8. /\ KindsOf(p) \cap {"Source", "Bridge"} # {} => "ingest" \in p.messages
      /\ KindsOf(p) \cap {"Sink", "Bridge"} # {} => "emit" \in p.messages
  BY <1>3, <1>4 DEF Holds
<1>9. "Broker" \in KindsOf(p) \/ "subscriptions" \in NeedsOf(p) => BrokerHolds(p)
  BY <1>5 DEF Holds
<1> QED
  BY <1>6, <1>7, <1>8, <1>9 DEF Deserves, SetupHolds, BrokerHolds

\* Without live commands it holds all its stages ask for.
LEMMA DeservesHolds ==
  ASSUME NEW p, Deserves(p), ~options.live,
         NEW s \in Stages, Applies(p, s, NeedsOf(p))
  PROVE  Holds(p, s, NeedsOf(p))
<1>1. CASE s \in {"requirements", "setup"}
  BY <1>1 DEF Deserves, Holds, SetupHolds
<1>2. CASE s = "ingest"
  BY <1>2 DEF Deserves, Applies, Holds
<1>3. CASE s = "emit"
  BY <1>3 DEF Deserves, Applies, Holds
<1>4. CASE s = "subscriptions"
  BY <1>4 DEF Deserves, Applies, Holds, BrokerHolds
<1> QED
  BY <1>1, <1>2, <1>3, <1>4, StagesAre

\* A stage that may fail excuses the verdict.
LEMMA MayFailEarned ==
  ASSUME NEW p, NEW s \in Stages, Applies(p, s, NeedsOf(p)), MayFail(p, s)
  PROVE  ~Deserves(p) \/ options.live \/ \E t \in Waits : Applies(p, t, NeedsOf(p))
  BY DeservesHolds DEF MayFail

\* Nothing a pack holds changes while the options stay.
LEMMA SameOptions ==
  ASSUME UNCHANGED options, NEW p
  PROVE  /\ ProvidersOf(p)' = ProvidersOf(p) /\ KindsOf(p)' = KindsOf(p)
         /\ BrokerOf(p)' = BrokerOf(p)
  BY DEF ProvidersOf, KindsOf, BrokerOf

LEMMA SameHolds ==
  ASSUME UNCHANGED options, NEW p, NEW s, NEW needed
  PROVE  /\ Applies(p, s, needed)' <=> Applies(p, s, needed)
         /\ Holds(p, s, needed)' <=> Holds(p, s, needed)
         /\ Deserves(p)' <=> Deserves(p)
         /\ MayFail(p, s)' <=> MayFail(p, s)
<1>1. /\ ProvidersOf(p)' = ProvidersOf(p) /\ KindsOf(p)' = KindsOf(p)
      /\ BrokerOf(p)' = BrokerOf(p)
  BY SameOptions
<1>2. Applies(p, s, needed)' <=> Applies(p, s, needed)
  BY <1>1 DEF Applies
<1>3. BrokerHolds(p)' <=> BrokerHolds(p)
  BY <1>1 DEF BrokerHolds
<1>4. \A n : Holds(p, s, n)' <=> Holds(p, s, n)
  BY <1>3 DEF Holds
<1>5. Deserves(p)' <=> Deserves(p)
  BY <1>1 DEF Deserves
<1>6. MayFail(p, s)' <=> MayFail(p, s)
  BY <1>4 DEF MayFail
<1> QED
  BY <1>2, <1>4, <1>5, <1>6

\* A report stays good.
LEMMA SameReport ==
  ASSUME UNCHANGED options, NEW r, NEW p, GoodReport(r, p)
  PROVE  GoodReport(r, p)'
<1>1. KindsOf(p)' = KindsOf(p)
  BY SameOptions
<1>2. StagewiseReport(r, p)' <=> StagewiseReport(r, p)
  BY <1>1 DEF StagewiseReport, Mentions
<1>3. /\ Deserves(p)' <=> Deserves(p)
      /\ \A t : Applies(p, t, NeedsOf(p))' <=> Applies(p, t, NeedsOf(p))
  BY SameHolds
<1>4. Earned(r, p)' <=> Earned(r, p)
  BY <1>3 DEF Earned
<1>5. FailedWhole(r)' <=> FailedWhole(r)
  BY DEF FailedWhole, AllFailed
<1> QED
  BY <1>2, <1>4, <1>5 DEF GoodReport

LEMMA SameReports ==
  ASSUME ReportInv, UNCHANGED <<packs, options, reports>>
  PROVE  ReportInv'
<1> SUFFICES ASSUME NEW i \in DOMAIN reports
             PROVE  reports[i].pack = i /\ GoodReport(reports[i], packs[i])'
  BY DEF ReportInv
<1>1. PICK r, p : r = reports[i] /\ p = packs[i]
  OBVIOUS
<1>2. reports[i].pack = i /\ GoodReport(r, p)
  BY <1>1 DEF ReportInv
<1>3. GoodReport(r, p)'
  BY <1>2, SameReport
<1>4. GoodReport(reports[i], packs[i])' <=> GoodReport(r, p)'
  BY <1>1 DEF GoodReport, Earned, StagewiseReport, Mentions, FailedWhole
<1> QED
  BY <1>2, <1>3, <1>4

\* A stage whose state is read as it was.
LEMMA SameDone ==
  ASSUME UNCHANGED <<packs, options, index>>, NEW s,
         StageDone(s), stages'[s] = stages[s],
         \A i \in DOMAIN diagnostics : i \in DOMAIN diagnostics' /\ diagnostics'[i] = diagnostics[i]
  PROVE  StageDone(s)'
<1>1. PICK p : p = Pack
  OBVIOUS
<1>2. p = Pack'
  BY <1>1 DEF Pack
<1>3. /\ Applies(p, s, NeedsOf(p))' <=> Applies(p, s, NeedsOf(p))
      /\ Holds(p, s, NeedsOf(p))' <=> Holds(p, s, NeedsOf(p))
      /\ MayFail(p, s)' <=> MayFail(p, s)
  BY SameHolds
<1>4. /\ Applies(Pack, s, NeedsOf(Pack))' <=> Applies(p, s, NeedsOf(p))'
      /\ Holds(Pack, s, NeedsOf(Pack))' <=> Holds(p, s, NeedsOf(p))'
      /\ MayFail(Pack, s)' <=> MayFail(p, s)'
  BY <1>2 DEF MayFail, Applies, Holds
<1> QED
  BY <1>1, <1>3, <1>4 DEF StageDone

\* What a stage asks for does not depend on the state beyond the pack's own
\* requirements.
LEMMA NeedsEnough ==
  ASSUME PackInv, stage \in Stages
  PROVE  /\ Applies(Pack, stage, needs) <=> Applies(Pack, stage, NeedsOf(Pack))
         /\ Holds(Pack, stage, needs) <=> Holds(Pack, stage, NeedsOf(Pack))
<1>1. CASE stage = "requirements"
  BY <1>1 DEF Applies, Holds
<1>2. CASE stage # "requirements"
  <2>1. Place(stage) > 1
    BY <1>2, StagesAre DEF Place
  <2> QED
    BY <2>1 DEF PackInv
<1> QED
  BY <1>1, <1>2

---------------------------------------------------------------------------
(* The stages of a pack *)

\* A stage ends: with "Pass" if it holds, with "Fail" and a diagnostic if it
\* may fail.
LEMMA EndStageKeeps ==
  ASSUME TypeOK, PackInv, Active, stage \in Stages, NEW status \in {"Pass", "Fail"},
         NEW said \in BOOLEAN, EndStage(status, said),
         Applies(Pack, stage, needs),
         status = "Pass" => Holds(Pack, stage, needs),
         status = "Fail" => stage # "requirements" /\ MayFail(Pack, stage) /\ said,
         needs' = IF stage = "requirements" THEN NeedsOf(Pack) ELSE needs
  PROVE  PackInv' /\ stage' \in Places /\ stages' \in [Stages -> Statuses]
         /\ diagnostics' \in Diagnostics
<1>1. /\ stages' = [stages EXCEPT ![stage] = status]
      /\ diagnostics' = IF said THEN Append(diagnostics, stage) ELSE diagnostics
      /\ stage' = After(stage) /\ phase' = "ready"
      /\ UNCHANGED <<packs, options, outcome, index>>
  BY DEF EndStage, input
<1>2. /\ stage' \in Places \ {"open"} /\ Place(stage') = Place(stage) + 1
      /\ Place(stage) \in 1 .. 5 /\ (Place(stage) = 1 <=> stage = "requirements")
      /\ \A t \in Stages : Place(t) < Place(stage') <=> (Place(t) < Place(stage) \/ t = stage)
  BY <1>1, AfterPlace
<1>3. /\ stages' \in [Stages -> Statuses] /\ stages'[stage] = status
      /\ \A t \in Stages : t # stage => stages'[t] = stages[t]
  BY <1>1 DEF TypeOK, Statuses
<1>4. /\ diagnostics' \in Diagnostics
      /\ \A i \in DOMAIN diagnostics :
           i \in DOMAIN diagnostics' /\ diagnostics'[i] = diagnostics[i]
      /\ said => \E i \in DOMAIN diagnostics' : diagnostics'[i] = stage
  BY <1>1 DEF TypeOK, Diagnostics
<1>5. PICK p : p = Pack
  OBVIOUS
<1>6. p = Pack'
  BY <1>1, <1>5 DEF Pack
<1>7. PICK s : s = stage
  OBVIOUS
<1>8. StageDone(s)'
  <2>1. /\ Applies(p, s, NeedsOf(p))
        /\ status = "Pass" => Holds(p, s, NeedsOf(p))
        /\ status = "Fail" => MayFail(p, s)
    BY <1>5, <1>7, NeedsEnough
  <2>2. /\ Applies(p, s, NeedsOf(p))'
        /\ status = "Pass" => Holds(p, s, NeedsOf(p))'
        /\ status = "Fail" => MayFail(p, s)'
    BY <1>1, <2>1, SameHolds
  <2>3. /\ Applies(Pack, s, NeedsOf(Pack))' <=> Applies(p, s, NeedsOf(p))'
        /\ Holds(Pack, s, NeedsOf(Pack))' <=> Holds(p, s, NeedsOf(p))'
        /\ MayFail(Pack, s)' <=> MayFail(p, s)'
    BY <1>6 DEF MayFail, Applies, Holds
  <2> QED
    BY <1>3, <1>4, <1>7, <2>2, <2>3 DEF StageDone
<1>9. \A t \in Stages :
        (IF Place(t) < Place(stage) THEN StageDone(t) ELSE stages[t] = "Skip")
  BY DEF PackInv
<1>10. ASSUME NEW t \in Stages
       PROVE  IF Place(t) < Place(stage') THEN StageDone(t)' ELSE stages'[t] = "Skip"
  <2>1. CASE t = stage
    BY <1>2, <1>7, <1>8, <2>1
  <2>2. CASE t # stage /\ Place(t) < Place(stage)
    <3>1. StageDone(t) /\ stages'[t] = stages[t]
      BY <1>3, <1>9, <2>2
    <3>2. StageDone(t)'
      BY <1>1, <1>4, <3>1, SameDone
    <3> QED
      BY <1>2, <2>2, <3>2
  <2>3. CASE t # stage /\ ~(Place(t) < Place(stage))
    BY <1>2, <1>3, <1>9, <2>3
  <2> QED
    BY <2>1, <2>2, <2>3
<1>11. /\ Pack.readable /\ Pack.events /\ ProvidersOf(Pack) # <<>>
       /\ Active'
  <2>1. stage # "open"
    BY StagesAre
  <2> QED
    BY <1>1, <2>1 DEF PackInv, Active
<1>12. Pack'.readable /\ Pack'.events /\ ProvidersOf(Pack') # <<>>
  BY <1>5, <1>6, <1>11
<1>13. stages'["requirements"] = "Pass" /\ needs' = NeedsOf(Pack')
  <2>1. CASE stage = "requirements"
    BY <1>3, <1>5, <1>6, <2>1
  <2>2. CASE stage # "requirements"
    <3>1. stages["requirements"] = "Pass" /\ needs = NeedsOf(Pack)
      BY <1>2, <2>2 DEF PackInv
    <3> QED
      BY <1>3, <1>5, <1>6, <2>2, <3>1, StagesAre
  <2> QED
    BY <2>1, <2>2
<1>14. ProvidersOf(Pack)' # <<>>
  BY <1>1, <1>12 DEF ProvidersOf
<1>15. Place(stage)' = Place(stage') /\ \A t \in Stages : Place(t)' = Place(t)
  BY DEF Place
<1> QED
  BY <1>1, <1>2, <1>3, <1>4, <1>10, <1>11, <1>12, <1>13, <1>14 DEF PackInv

---------------------------------------------------------------------------
(* The reports *)

\* A report is pushed, and the next pack starts with state of its own.
LEMMA PushKeeps ==
  ASSUME TypeOK, Loop, ReportInv, Active, NEW status \in Statuses,
         NEW state \in [Stages -> Statuses], NEW about \in Diagnostics,
         Push(status, state, about),
         GoodReport([pack |-> index, status |-> status, stages |-> state,
                     diagnostics |-> about], Pack)
  PROVE  /\ reports' \in Seq(Reports) /\ Loop' /\ PackInv' /\ ReportInv'
         /\ index' \in Nat /\ stage' \in Places /\ phase' = "ready" /\ command' \in Nat
         /\ stages' \in [Stages -> Statuses] /\ diagnostics' \in Diagnostics
<1> DEFINE r == [pack |-> index, status |-> status, stages |-> state,
                 diagnostics |-> about]
<1>1. /\ reports' = Append(reports, r) /\ index' = index + 1
      /\ stage' = "open" /\ phase' = "ready" /\ command' = 0 /\ needs' = {}
      /\ stages' = NoneRun /\ diagnostics' = <<>>
      /\ UNCHANGED <<packs, options, outcome>>
  BY DEF Push, input
<1>2. r \in Reports
  BY DEF Reports, TypeOK
<1>3. /\ reports' \in Seq(Reports) /\ Len(reports') = Len(reports) + 1
      /\ Len(reports) \in Nat /\ DOMAIN reports = 1 .. Len(reports)
      /\ DOMAIN reports' = 1 .. (Len(reports) + 1)
      /\ \A i \in 1 .. Len(reports) : reports'[i] = reports[i]
      /\ reports'[Len(reports) + 1] = r
  BY <1>1, <1>2 DEF TypeOK
<1>4. index \in 1 .. Len(packs) /\ index = Len(reports) + 1 /\ outcome = "running"
  BY DEF Active, TypeOK, Loop
<1>5. PICK q, p : q = r /\ p = Pack
  OBVIOUS
<1> HIDE DEF r
<1>6. Loop'
  BY <1>1, <1>3, <1>4 DEF Loop, TypeOK
<1>7. PackInv'
  <2>1. \A s \in Stages : ~(Place(s) < 0) /\ NoneRun[s] = "Skip"
    <3>1. \A s \in Stages : Place(s) \in 1 .. 5
      BY AfterPlace
    <3> QED
      BY <3>1 DEF NoneRun
  <2>2. Place(stage)' = 0 /\ \A s \in Stages : Place(s)' = Place(s)
    BY <1>1 DEF Place
  <2> QED
    BY <1>1, <2>1, <2>2 DEF PackInv, Fresh, NoneRun
<1>8. ReportInv'
  <2> SUFFICES ASSUME NEW i \in 1 .. (Len(reports) + 1)
               PROVE  reports'[i].pack = i /\ GoodReport(reports[i], packs[i])'
    BY <1>3 DEF ReportInv
  <2>1. CASE i \in 1 .. Len(reports)
    <3>1. PICK o, w : o = reports[i] /\ w = packs[i]
      OBVIOUS
    <3>2. reports[i].pack = i /\ GoodReport(o, w)
      BY <1>3, <2>1, <3>1 DEF ReportInv
    <3>3. GoodReport(o, w)'
      BY <1>1, <3>2, SameReport
    <3>4. o = reports'[i] /\ w = packs'[i]
      BY <1>1, <1>3, <2>1, <3>1
    <3>5. GoodReport(reports[i], packs[i])' <=> GoodReport(o, w)'
      BY <3>4 DEF GoodReport, Earned, StagewiseReport, Mentions, FailedWhole
    <3> QED
      BY <3>1, <3>2, <3>3, <3>4, <3>5
  <2>2. CASE i = Len(reports) + 1
    <3>1. reports'[i] = q /\ packs'[i] = p /\ q.pack = i
      BY <1>1, <1>3, <1>4, <1>5, <2>2 DEF Pack, r
    <3>2. GoodReport(q, p)
      BY <1>5 DEF r
    <3>3. GoodReport(q, p)'
      BY <1>1, <3>2, SameReport
    <3>4. GoodReport(reports[i], packs[i])' <=> GoodReport(q, p)'
      BY <3>1 DEF GoodReport, Earned, StagewiseReport, Mentions, FailedWhole
    <3> QED
      BY <3>1, <3>3, <3>4
  <2> QED
    BY <2>1, <2>2
<1>9. stages' \in [Stages -> Statuses] /\ diagnostics' \in Diagnostics
  BY <1>1, EmptySeq DEF NoneRun, Statuses, Diagnostics
<1> QED
  BY <1>1, <1>3, <1>4, <1>6, <1>7, <1>8, <1>9 DEF Places

\* A pack that fails as a whole failed a stage that may fail, or could not be
\* opened.
LEMMA WholeReport ==
  ASSUME \/ ~Deserves(Pack) \/ options.live
         \/ \E s \in Waits : Applies(Pack, s, NeedsOf(Pack))
  PROVE  GoodReport([pack |-> index, status |-> "Fail", stages |-> AllFailed,
                     diagnostics |-> <<"pack">>], Pack)
  BY DEF GoodReport, Earned, FailedWhole

LEMMA PackFailsKeeps ==
  ASSUME TypeOK, Loop, ReportInv, Active, PackFails,
         \/ ~Deserves(Pack) \/ options.live
         \/ \E s \in Waits : Applies(Pack, s, NeedsOf(Pack))
  PROVE  /\ reports' \in Seq(Reports) /\ Loop' /\ PackInv' /\ ReportInv'
         /\ index' \in Nat /\ stage' \in Places /\ phase' = "ready" /\ command' \in Nat
         /\ stages' \in [Stages -> Statuses] /\ diagnostics' \in Diagnostics
<1>1. "Fail" \in Statuses /\ AllFailed \in [Stages -> Statuses]
  BY DEF AllFailed, Statuses
<1>2. <<"pack">> \in Diagnostics
  BY DEF Diagnostics
<1> QED
  BY <1>1, <1>2, WholeReport, PushKeeps DEF PackFails

\* A pack that came through all its stages has the verdict it earned.
LEMMA VerdictReport ==
  ASSUME TypeOK, PackInv, At("verdict")
  PROVE  GoodReport([pack |-> index, status |-> OverallStatus(stages),
                     stages |-> stages, diagnostics |-> diagnostics], Pack)
<1> DEFINE r == [pack |-> index, status |-> OverallStatus(stages),
                 stages |-> stages, diagnostics |-> diagnostics]
<1>1. PICK p : p = Pack
  OBVIOUS
<1>2. \A s \in Stages : StageDone(s)
  <2>1. Place(stage) = 6
    BY DEF At, Place
  <2>2. \A s \in Stages : Place(s) < Place(stage)
    BY <2>1, AfterPlace
  <2> QED
    BY <2>2 DEF PackInv
<1>3. /\ stages["requirements"] = "Pass"
      /\ p.readable /\ p.events /\ ProvidersOf(p) # <<>>
  BY <1>1 DEF At, PackInv, Place
<1>4. ASSUME NEW s \in Stages
      PROVE  /\ (stages[s] = "Skip") <=> ~Applies(p, s, NeedsOf(p))
             /\ stages[s] = "Pass" => Holds(p, s, NeedsOf(p))
             /\ stages[s] = "Fail" => MayFail(p, s) /\ Mentions(r, s)
             /\ stages[s] \in {"Pass", "Fail", "Skip"}
  BY <1>1, <1>2 DEF StageDone, Mentions
<1> HIDE DEF r
<1>5. OverallStatus(stages) = IF \E s \in Stages : stages[s] = "Fail" THEN "Fail" ELSE "Pass"
  BY <1>3, StagesAre DEF OverallStatus
<1>6. r.status \in {"Pass", "Fail"} /\ (r.status = "Fail" <=> \E s \in Stages : stages[s] = "Fail")
  BY <1>5 DEF r
<1>7. Earned(r, p)
  <2>1. CASE r.status = "Pass"
    <3>1. \A s \in Stages : Applies(p, s, NeedsOf(p)) => Holds(p, s, NeedsOf(p))
      BY <1>4, <1>6, <2>1
    <3>2. Deserves(p)
      BY <1>3, <3>1, AllHoldDeserves
    <3> QED
      BY <2>1, <3>2 DEF Earned
  <2>2. CASE r.status = "Fail"
    <3>1. PICK s \in Stages : stages[s] = "Fail"
      BY <1>6, <2>2
    <3>2. Applies(p, s, NeedsOf(p)) /\ MayFail(p, s)
      BY <1>4, <3>1
    <3> QED
      BY <2>2, <3>2, MayFailEarned DEF Earned
  <2> QED
    BY <1>6, <2>1, <2>2
<1>8. StagewiseReport(r, p)
  <2>0. r.stages = stages
    BY DEF r
  <2>1. (stages["ingest"] = "Skip") <=> (KindsOf(p) \cap {"Source", "Bridge"} = {})
    BY <1>4, StagesAre DEF Applies
  <2>2. (stages["emit"] = "Skip") <=> (KindsOf(p) \cap {"Sink", "Bridge"} = {})
    BY <1>4, StagesAre DEF Applies
  <2>3. (stages["subscriptions"] = "Skip")
          <=> ("Broker" \notin KindsOf(p) /\ "subscriptions" \notin NeedsOf(p))
    BY <1>4, StagesAre DEF Applies
  <2>4. stages["setup"] # "Skip"
    BY <1>4, StagesAre DEF Applies
  <2>5. \A s \in Stages : stages[s] = "Fail" => Mentions(r, s)
    BY <1>4
  <2> QED
    BY <1>3, <1>6, <2>0, <2>1, <2>2, <2>3, <2>4, <2>5 DEF StagewiseReport
<1> QED
  BY <1>1, <1>6, <1>7, <1>8 DEF GoodReport, r

---------------------------------------------------------------------------
(* Every step keeps the invariant *)

\* What waits or fails at a stage that applies excuses the verdict.
LEMMA StageExcuse ==
  ASSUME PackInv, stage \in Stages, Applies(Pack, stage, needs),
         ~Holds(Pack, stage, needs) \/ options.live \/ stage \in Waits
  PROVE  /\ MayFail(Pack, stage)
         /\ \/ ~Deserves(Pack) \/ options.live
            \/ \E s \in Waits : Applies(Pack, s, NeedsOf(Pack))
<1>1. Applies(Pack, stage, NeedsOf(Pack))
  BY NeedsEnough
<1>2. MayFail(Pack, stage)
  BY NeedsEnough DEF MayFail
<1> QED
  BY <1>1, <1>2, MayFailEarned

LEMMA StageEnds ==
  ASSUME IInv, Active, stage \in Stages, Applies(Pack, stage, needs),
         \/ Holds(Pack, stage, needs) /\ StagePasses
         \/ /\ ~Holds(Pack, stage, needs) \/ options.live \/ stage \in Waits
            /\ StageFails
  PROVE  IInv'
<1> USE DEF IInv
<1>1. CASE Holds(Pack, stage, needs) /\ StagePasses
  <2>1. Speaks(stage, "Pass") \in BOOLEAN
    BY DEF Speaks
  <2>2. /\ EndStage("Pass", Speaks(stage, "Pass"))
        /\ needs' = IF stage = "requirements" THEN NeedsOf(Pack) ELSE needs
    BY <1>1 DEF StagePasses, NeedsOf
  <2>3. PackInv' /\ stage' \in Places /\ stages' \in [Stages -> Statuses]
        /\ diagnostics' \in Diagnostics
    BY <1>1, <2>1, <2>2, EndStageKeeps
  <2>4. /\ UNCHANGED <<packs, options, outcome, index, expired, reports, summary>>
        /\ phase' = "ready" /\ command' = 0
    BY <2>2 DEF EndStage, input
  <2>5. TypeOK'
    BY <2>3, <2>4 DEF TypeOK
  <2>6. Loop' /\ SummaryInv'
    BY <2>4 DEF Loop, SummaryInv, Summarize, Counted
  <2> QED
    BY <2>3, <2>4, <2>5, <2>6, SameReports
<1>2. CASE /\ ~Holds(Pack, stage, needs) \/ options.live \/ stage \in Waits
           /\ StageFails
  <2>1. CASE stage = "requirements"
    <3>1. PackFails
      BY <1>2, <2>1 DEF StageFails
    <3>2. /\ reports' \in Seq(Reports) /\ Loop' /\ PackInv' /\ ReportInv'
          /\ index' \in Nat /\ stage' \in Places /\ phase' = "ready" /\ command' \in Nat
          /\ stages' \in [Stages -> Statuses] /\ diagnostics' \in Diagnostics
      BY <1>2, <3>1, StageExcuse, PackFailsKeeps
    <3>3. UNCHANGED <<packs, options, outcome, summary>> /\ expired' = FALSE
      BY <3>1 DEF PackFails, Push, input
    <3>4. TypeOK'
      BY <3>2, <3>3 DEF TypeOK
    <3>5. SummaryInv'
      BY <3>3 DEF SummaryInv, Active
    <3> QED
      BY <3>2, <3>4, <3>5
  <2>2. CASE stage # "requirements"
    <3>1. EndStage("Fail", Speaks(stage, "Fail")) /\ needs' = needs /\ Speaks(stage, "Fail")
      BY <1>2, <2>2 DEF StageFails, Speaks
    <3>2. Speaks(stage, "Fail") \in BOOLEAN
      BY DEF Speaks
    <3>3. PackInv' /\ stage' \in Places /\ stages' \in [Stages -> Statuses]
          /\ diagnostics' \in Diagnostics
      BY <1>2, <2>2, <3>1, <3>2, StageExcuse, EndStageKeeps
    <3>4. /\ UNCHANGED <<packs, options, outcome, index, expired, reports, summary>>
          /\ phase' = "ready" /\ command' = 0
      BY <3>1 DEF EndStage, input
    <3>5. TypeOK'
      BY <3>3, <3>4 DEF TypeOK
    <3>6. Loop' /\ SummaryInv'
      BY <3>4 DEF Loop, SummaryInv, Summarize, Counted
    <3> QED
      BY <3>3, <3>4, <3>5, <3>6, SameReports
  <2> QED
    BY <2>1, <2>2
<1> QED
  BY <1>1, <1>2

\* The pack as a whole is reported.
LEMMA PackEnds ==
  ASSUME IInv, Active,
         \/ /\ PackFails
            /\ \/ ~Deserves(Pack) \/ options.live
               \/ \E s \in Waits : Applies(Pack, s, NeedsOf(Pack))
         \/ ClosePack
  PROVE  IInv'
<1> USE DEF IInv
<1>1. /\ reports' \in Seq(Reports) /\ Loop' /\ PackInv' /\ ReportInv'
      /\ index' \in Nat /\ stage' \in Places /\ phase' = "ready" /\ command' \in Nat
      /\ stages' \in [Stages -> Statuses] /\ diagnostics' \in Diagnostics
  <2>1. CASE ClosePack
    <3>1. Push(OverallStatus(stages), stages, diagnostics) /\ At("verdict")
      BY <2>1 DEF ClosePack
    <3>2. OverallStatus(stages) \in Statuses
      BY DEF OverallStatus, Statuses
    <3>3. stages \in [Stages -> Statuses] /\ diagnostics \in Diagnostics
      BY DEF TypeOK
    <3> QED
      BY <3>1, <3>2, <3>3, VerdictReport, PushKeeps
  <2>2. CASE ~ClosePack
    BY <2>2, PackFailsKeeps
  <2> QED
    BY <2>1, <2>2
<1>2. UNCHANGED <<packs, options, outcome, summary>> /\ expired' = FALSE
  BY DEF PackFails, ClosePack, Push, input
<1>3. TypeOK'
  BY <1>1, <1>2 DEF TypeOK
<1>4. SummaryInv'
  BY <1>2 DEF SummaryInv, Active
<1> QED
  BY <1>1, <1>3, <1>4

\* Before a pack is opened there is nothing of it yet.
LEMMA OpenKeeps ==
  ASSUME PackInv, stage = "open", UNCHANGED <<stage, phase, needs, stages, diagnostics>>
  PROVE  PackInv'
<1>1. Fresh /\ Place(stage) = 0
  BY DEF PackInv, Place
<1>2. Place(stage)' = 0 /\ Fresh'
  BY <1>1 DEF Place, Fresh, NoneRun
<1>3. \A s \in Stages : Place(s)' = Place(s) /\ Place(s) \in 1 .. 5
  BY AfterPlace DEF Place
<1>4. \A s \in Stages : stages'[s] = "Skip"
  BY <1>1 DEF Fresh, NoneRun
<1> QED
  BY <1>2, <1>3, <1>4 DEF PackInv, Fresh

\* A stage waits or is at a command: what the stages before it left behind
\* is not touched.
LEMMA HereKeeps ==
  ASSUME PackInv,
         UNCHANGED <<packs, options, outcome, index, stage, needs, stages, diagnostics>>,
         phase' # "ready" =>
           stage \in Stages /\ Applies(Pack, stage, needs) /\ Holds(Pack, stage, needs),
         phase' = "awaiting" => stage \in Waits,
         phase' = "blocked" => options.live,
         stage = "open" => phase' = "ready"
  PROVE  PackInv'
<1>1. PICK p, s, n : p = Pack /\ s = stage /\ n = needs
  OBVIOUS
<1>2. p = Pack' /\ s = stage' /\ n = needs'
  BY <1>1 DEF Pack
<1>3. /\ Applies(p, s, n)' <=> Applies(p, s, n)
      /\ Holds(p, s, n)' <=> Holds(p, s, n)
      /\ ProvidersOf(p)' = ProvidersOf(p)
  BY SameHolds, SameOptions
<1>4. /\ Applies(Pack, stage, needs)' <=> Applies(p, s, n)'
      /\ Holds(Pack, stage, needs)' <=> Holds(p, s, n)'
      /\ ProvidersOf(Pack)' = ProvidersOf(p)'
  BY <1>2 DEF Applies, Holds, ProvidersOf
<1>5. Place(stage)' = Place(stage) /\ \A t \in Stages : Place(t)' = Place(t)
  BY DEF Place
<1>6. ASSUME NEW t \in Stages
      PROVE  IF Place(t) < Place(stage) THEN StageDone(t)' ELSE stages'[t] = "Skip"
  <2>1. IF Place(t) < Place(stage) THEN StageDone(t) ELSE stages[t] = "Skip"
    BY DEF PackInv
  <2> QED
    BY <2>1, SameDone
<1>7. stage # "open" => Active' /\ Pack'.readable /\ Pack'.events /\ ProvidersOf(p) # <<>>
  BY <1>1, <1>2 DEF PackInv, Active
<1>8. stage = "open" => Fresh'
  BY DEF PackInv, Fresh, NoneRun
<1>9. Place(stage) > 1 => stages'["requirements"] = "Pass" /\ needs' = NeedsOf(Pack')
  BY <1>1, <1>2 DEF PackInv
<1>10. phase' # "ready" => stage' \in Stages /\ Applies(Pack, stage, needs)'
                            /\ Holds(Pack, stage, needs)'
  BY <1>1, <1>3, <1>4
<1> QED
  BY <1>3, <1>4, <1>5, <1>6, <1>7, <1>8, <1>9, <1>10 DEF PackInv

\* A stage the pack has no use for.
LEMMA SkipKeeps ==
  ASSUME PackInv, Active, SkipStage
  PROVE  PackInv' /\ stage' \in Places
<1>1. /\ stage \in Stages /\ phase = "ready" /\ ~Applies(Pack, stage, needs)
      /\ stage' = After(stage)
      /\ UNCHANGED <<packs, options, outcome, index, phase, needs, stages, diagnostics>>
  BY DEF SkipStage, At, input
<1>2. /\ stage' \in Places \ {"open"} /\ Place(stage') = Place(stage) + 1
      /\ Place(stage) \in 1 .. 5 /\ (Place(stage) = 1 <=> stage = "requirements")
      /\ \A t \in Stages : Place(t) < Place(stage') <=> (Place(t) < Place(stage) \/ t = stage)
  BY <1>1, AfterPlace
<1>3. stage # "requirements" /\ stage # "open" /\ ~Applies(Pack, stage, NeedsOf(Pack))
  <2>1. stage # "requirements"
    BY <1>1 DEF Applies
  <2>2. stage # "open"
    BY <1>1, StagesAre
  <2> QED
    BY <1>1, <2>1, <2>2, NeedsEnough
<1>4. stages[stage] = "Skip"
  <2>1. ~(Place(stage) < Place(stage))
    BY <1>2
  <2> QED
    BY <1>1, <2>1 DEF PackInv
<1>5. StageDone(stage)
  BY <1>3, <1>4 DEF StageDone
<1>6. ASSUME NEW t \in Stages
      PROVE  IF Place(t) < Place(stage') THEN StageDone(t)' ELSE stages'[t] = "Skip"
  <2>1. IF Place(t) < Place(stage) THEN StageDone(t) ELSE stages[t] = "Skip"
    BY DEF PackInv
  <2>2. Place(t) < Place(stage') => StageDone(t)
    BY <1>2, <1>5, <2>1
  <2>3. StageDone(t) => StageDone(t)'
    BY <1>1, SameDone
  <2> QED
    BY <1>1, <1>2, <2>1, <2>2, <2>3
<1>7. Place(stage)' = Place(stage') /\ \A t \in Stages : Place(t)' = Place(t)
  BY DEF Place
<1>8. PICK p : p = Pack
  OBVIOUS
<1>9. p = Pack' /\ ProvidersOf(p)' = ProvidersOf(p)
  BY <1>1, <1>8, SameOptions DEF Pack
<1>10. ProvidersOf(Pack)' = ProvidersOf(p)'
  BY <1>9 DEF ProvidersOf
<1>11. /\ Active' /\ Pack'.readable /\ Pack'.events /\ ProvidersOf(Pack)' # <<>>
       /\ stages'["requirements"] = "Pass" /\ needs' = NeedsOf(Pack')
  BY <1>1, <1>2, <1>3, <1>8, <1>9, <1>10 DEF PackInv, Active
<1> QED
  BY <1>1, <1>2, <1>6, <1>7, <1>11 DEF PackInv

\* The pack is opened.
LEMMA OpenPackKeeps ==
  ASSUME PackInv, OpenPack
  PROVE  PackInv'
<1>1. /\ stage = "open" /\ stage' = "requirements" /\ phase = "ready" /\ Active
      /\ Pack.readable /\ Pack.events /\ ProvidersOf(Pack) # <<>>
      /\ UNCHANGED <<packs, options, outcome, index, phase, needs, stages, diagnostics>>
  BY DEF OpenPack, At, input
<1>2. Fresh
  BY <1>1 DEF PackInv
<1>3. PICK p : p = Pack
  OBVIOUS
<1>4. p = Pack' /\ ProvidersOf(p)' = ProvidersOf(p)
  BY <1>1, <1>3, SameOptions DEF Pack
<1>5. ProvidersOf(Pack)' = ProvidersOf(p)'
  BY <1>4 DEF ProvidersOf
<1>6. /\ Active' /\ Pack'.readable /\ Pack'.events /\ ProvidersOf(Pack)' # <<>>
  BY <1>1, <1>3, <1>4, <1>5 DEF Active
<1>7. Place(stage)' = 1 /\ \A t \in Stages : Place(t)' = Place(t) /\ Place(t) \in 1 .. 5
  BY <1>1, AfterPlace DEF Place
<1>8. \A t \in Stages : stages'[t] = "Skip"
  BY <1>1, <1>2 DEF Fresh, NoneRun
<1> QED
  BY <1>1, <1>6, <1>7, <1>8 DEF PackInv

LEMMA InitIInv == Init => IInv
<1> SUFFICES ASSUME Init PROVE IInv
  OBVIOUS
<1>1. PICK run \in Scenarios : packs = run.packs /\ options = run.options
  BY DEF Init
<1>2. Len(packs) \in Nat /\ DOMAIN packs = 1 .. Len(packs) /\ options \in Options
  BY <1>1, HarnessAssumption
<1>3. stages \in [Stages -> Statuses]
  BY DEF Init, NoneRun, Statuses
<1>4. diagnostics \in Diagnostics /\ reports \in Seq(Reports) /\ reports = <<>>
  BY EmptySeq DEF Init, Diagnostics
<1>5. TypeOK
  BY <1>2, <1>3, <1>4 DEF Init, TypeOK, Places
<1>6. Loop
  BY <1>2 DEF Init, Loop
<1>7. PackInv
  <2>1. stage = "open" /\ phase = "ready" /\ Fresh /\ Place(stage) = 0
    BY DEF Init, Fresh, Place
  <2>2. \A s \in Stages : ~(Place(s) < 0) /\ stages[s] = "Skip"
    <3>1. \A s \in Stages : Place(s) \in 1 .. 5
      BY AfterPlace
    <3> QED
      BY <3>1 DEF Init, NoneRun
  <2> QED
    BY <2>1, <2>2 DEF PackInv
<1>8. ReportInv /\ SummaryInv
  BY <1>4 DEF Init, ReportInv, SummaryInv
<1> QED
  BY <1>5, <1>6, <1>7, <1>8 DEF IInv

LEMMA StepIInv == IInv /\ [Next]_vars => IInv'
<1> SUFFICES ASSUME IInv, [Next]_vars PROVE IInv'
  OBVIOUS
<1> USE DEF IInv
<1>0. Len(packs) \in Nat /\ DOMAIN packs = 1 .. Len(packs) /\ Len(reports) \in Nat
  BY LenProperties DEF TypeOK
<1>1. CASE Refuse \/ StartRun
  <2>1. /\ index = 0 /\ outcome = "running" /\ index' \in {0, 1}
        /\ UNCHANGED <<packs, options, stage, phase, command, expired, needs, stages,
                       diagnostics, reports, summary>>
        /\ outcome' \in {"running", "error"}
    BY <1>1 DEF Refuse, StartRun, input
  <2>2. stage = "open"
    BY <1>0, <2>1 DEF PackInv, Active
  <2>3. PackInv' /\ ReportInv'
    BY <2>1, <2>2, OpenKeeps, SameReports
  <2>4. TypeOK' /\ SummaryInv'
    BY <2>1 DEF TypeOK, SummaryInv
  <2>5. Loop'
    BY <1>0, <2>1 DEF Loop
  <2> QED
    BY <2>3, <2>4, <2>5
<1>2. CASE OpenFails
  <2>1. Active /\ PackFails
    BY <1>2 DEF OpenFails, At
  <2>2. ~Deserves(Pack)
    BY <1>2 DEF OpenFails, Deserves
  <2> QED
    BY <2>1, <2>2, PackEnds
<1>3. CASE OpenPack \/ SkipStage
  <2>1. PackInv' /\ stage' \in Places
    <3>1. CASE OpenPack
      BY <3>1, OpenPackKeeps, StagesAre DEF OpenPack, Places
    <3>2. CASE SkipStage
      BY <3>2, SkipKeeps DEF SkipStage, At
    <3> QED
      BY <1>3, <3>1, <3>2
  <2>2. UNCHANGED <<packs, options, outcome, index, phase, command, expired, stages,
                    diagnostics, reports, summary>>
    BY <1>3 DEF OpenPack, SkipStage, input
  <2>3. TypeOK'
    BY <2>1, <2>2 DEF TypeOK
  <2>4. Loop' /\ SummaryInv' /\ ReportInv'
    BY <2>2, SameReports DEF Loop, SummaryInv, Summarize, Counted
  <2> QED
    BY <2>1, <2>3, <2>4
<1>4. CASE FailAtOnce
  <2>1. Active /\ stage \in Stages
    BY <1>4 DEF FailAtOnce, At
  <2> QED
    BY <1>4, <2>1, StageEnds DEF FailAtOnce
<1>5. CASE PassAtOnce
  <2>1. Active /\ stage \in Stages
    BY <1>5 DEF PassAtOnce, At
  <2> QED
    BY <1>5, <2>1, StageEnds DEF PassAtOnce
<1>6. CASE StageWaits \/ StartCommand \/ NextCommand \/ Expire
  <2>1. /\ UNCHANGED <<packs, options, outcome, index, stage, needs, stages,
                       diagnostics, reports, summary>>
        /\ phase' \in {"ready", "awaiting", "blocked"} /\ command' \in Nat
        /\ expired' \in BOOLEAN
    <3>1. /\ phase \in {"ready", "awaiting", "blocked"} /\ command \in Nat
          /\ expired \in BOOLEAN
      BY DEF TypeOK
    <3>2. CASE StageWaits
      BY <3>1, <3>2 DEF StageWaits, input
    <3>3. CASE StartCommand
      BY <3>1, <3>3 DEF StartCommand, input
    <3>4. CASE NextCommand
      BY <3>1, <3>4 DEF NextCommand, input
    <3>5. CASE Expire
      BY <3>1, <3>5 DEF Expire, input
    <3> QED
      BY <1>6, <3>2, <3>3, <3>4, <3>5
  <2>2. PackInv'
    <3>1. CASE StageWaits
      <4>1. /\ stage \in Stages /\ stage \in Waits /\ phase' = "awaiting"
            /\ Applies(Pack, stage, needs) /\ Holds(Pack, stage, needs)
        BY <3>1, HarnessAssumption DEF StageWaits, At
      <4>2. stage # "open"
        BY <4>1, StagesAre
      <4> QED
        BY <2>1, <4>1, <4>2, HereKeeps
    <3>2. CASE StartCommand
      <4>1. /\ stage \in Stages /\ phase' = "blocked"
            /\ Applies(Pack, stage, needs) /\ Holds(Pack, stage, needs)
        BY <3>2 DEF StartCommand, At
      <4>2. options.live
        BY <3>2 DEF StartCommand, CommandsOf
      <4>3. stage # "open"
        BY <4>1, StagesAre
      <4> QED
        BY <2>1, <4>1, <4>2, <4>3, HereKeeps
    <3>3. CASE NextCommand \/ Expire
      <4>1. phase' = phase
        BY <3>3 DEF NextCommand, Expire
      <4> QED
        BY <2>1, <4>1, HereKeeps DEF PackInv, Fresh
    <3> QED
      BY <1>6, <3>1, <3>2, <3>3
  <2>3. TypeOK'
    BY <2>1 DEF TypeOK
  <2>4. Loop' /\ SummaryInv' /\ ReportInv'
    BY <2>1, SameReports DEF Loop, SummaryInv, Summarize, Counted
  <2> QED
    BY <2>2, <2>3, <2>4
<1>7. CASE WaitSucceeds \/ WaitFails
  <2>1. /\ Active /\ stage \in Stages /\ stage \in Waits
        /\ Applies(Pack, stage, needs) /\ Holds(Pack, stage, needs)
    BY <1>7 DEF WaitSucceeds, WaitFails, PackInv
  <2> QED
    BY <1>7, <2>1, StageEnds DEF WaitSucceeds, WaitFails
<1>8. CASE LastCommandSucceeds \/ CommandFails
  <2>1. /\ Active /\ stage \in Stages /\ options.live
        /\ Applies(Pack, stage, needs) /\ Holds(Pack, stage, needs)
    BY <1>8 DEF LastCommandSucceeds, CommandFails, PackInv
  <2> QED
    BY <1>8, <2>1, StageEnds DEF LastCommandSucceeds, CommandFails
<1>9. CASE TimeoutFires
  <2>1. /\ Active /\ stage \in Stages /\ stage \in Waits /\ PackFails
        /\ Applies(Pack, stage, needs)
    BY <1>9 DEF TimeoutFires, PackInv
  <2> QED
    BY <2>1, StageExcuse, PackEnds
<1>10. CASE ClosePack
  BY <1>10, PackEnds DEF ClosePack, At
<1>11. ASSUME NEW written \in BOOLEAN, Finish(written)
       PROVE  IInv'
  <2>1. /\ outcome = "running" /\ index = Len(packs) + 1
        /\ UNCHANGED <<packs, options, index, stage, phase, command, expired, needs,
                       stages, diagnostics, reports>>
        /\ summary' = Summarize /\ outcome' \in {"reported", "error"}
    BY <1>11 DEF Finish, input
  <2>2. stage = "open"
    BY <1>0, <2>1 DEF PackInv, Active
  <2>3. PackInv' /\ ReportInv'
    BY <2>1, <2>2, OpenKeeps, SameReports
  <2>4. TypeOK' /\ SummaryInv'
    BY <2>1 DEF TypeOK, SummaryInv, Summarize, Counted
  <2>5. Loop'
    BY <1>0, <2>1 DEF Loop
  <2> QED
    BY <2>3, <2>4, <2>5
<1>12. CASE UNCHANGED vars
  <2>1. UNCHANGED <<packs, options, outcome, index, stage, phase, command, expired,
                    needs, stages, diagnostics, reports, summary>>
    BY <1>12 DEF vars
  <2>2. PackInv'
    BY <2>1, HereKeeps DEF PackInv, Fresh
  <2>3. TypeOK' /\ Loop' /\ SummaryInv' /\ ReportInv'
    BY <2>1, SameReports DEF TypeOK, Loop, SummaryInv, Summarize, Counted
  <2> QED
    BY <2>2, <2>3
<1> QED
  BY <1>1, <1>2, <1>3, <1>4, <1>5, <1>6, <1>7, <1>8, <1>9, <1>10, <1>11, <1>12
     DEF Next, Progress, CommandEnds

---------------------------------------------------------------------------
(* The walk of a config flow *)

\* Walk without its recursion: every turn follows from the one before.
IsWalk(W, flow, given) ==
  /\ W[0] = Walker(Entry(flow), given, Failed("limit"))
  /\ \A k \in 0 .. TraversalLimit(flow) : W[k] \in Walkers
  /\ \A k \in 1 .. TraversalLimit(flow) : W[k] = Turn(flow)[W[k - 1]]

LEMMA LeastOf ==
  ASSUME NEW S, S \subseteq Nat, S # {}
  PROVE  \E x \in S : \A y \in S : x <= y
<1>1. PICK x \in S : \A y \in S : <<y, x>> \notin OpToRel(<, Nat)
  BY NatLessThanWellFounded, WFMin
<1>2. ASSUME NEW y \in S, y < x
      PROVE  FALSE
  <2>1. <<y, x>> \in Nat \X Nat /\ <<y, x>>[1] < <<y, x>>[2]
    BY <1>2, SMT
  <2>2. <<y, x>> \in OpToRel(<, Nat)
    BY <2>1, Zenon DEF OpToRel
  <2> QED
    BY <1>1, <2>2
<1> QED
  BY <1>2, SMT

LEMMA LimitIs ==
  ASSUME NEW flow, IsFlow(flow)
  PROVE  /\ IsFiniteSet(DOMAIN flow.nodes)
         /\ Cardinality(DOMAIN flow.nodes) \in Nat
         /\ TraversalLimit(flow) = Cardinality(DOMAIN flow.nodes) + 4
<1>1. IsFiniteSet(DOMAIN flow.nodes)
  BY FlowAssumption, FS_Subset DEF IsFlow
<1> QED
  BY <1>1, FS_CardinalityType DEF TraversalLimit

LEMMA WalkerIs ==
  ASSUME NEW current, NEW answers, NEW out
  PROVE  /\ Walker(current, answers, out).current = current
         /\ Walker(current, answers, out).answers = answers
         /\ Walker(current, answers, out).out = out
BY DEF Walker

LEMMA OutcomeIs ==
  ASSUME NEW kind
  PROVE  Failed(kind).kind = kind /\ Failed(kind).object \in Objects
BY DEF Failed, Outcome, EmptyObject, Objects

LEMMA WalkerType ==
  ASSUME NEW current \in NodeIds, NEW answers \in SUBSET Fields,
         NEW kind \in {"object", "scalar", "error", "limit"}
  PROVE  Walker(current, answers, Failed(kind)) \in Walkers
BY DEF Walkers, Walker, Failed, Outcome, EmptyObject, Objects

\* A turn goes on exactly at an answered questions node with a successor.
LEMMA TurnIs ==
  ASSUME NEW flow, IsFlow(flow), NEW w \in Walkers
  PROVE  /\ Turn(flow)[w] \in Walkers
         /\ ~Walking(w) => Turn(flow)[w] = w
         /\ Walking(w) /\ GoesOn(flow, w) =>
              /\ Walking(Turn(flow)[w])
              /\ Turn(flow)[w].current = flow.nodes[w.current].next
              /\ Turn(flow)[w].answers = ApplyQuestions(flow.nodes[w.current], w.answers)
         /\ Walking(w) /\ ~GoesOn(flow, w) =>
              /\ ~Walking(Turn(flow)[w])
              /\ IF IsAt(flow, w, "template")
                 THEN Turn(flow)[w].out = RenderTemplate(flow.nodes[w.current])
                 ELSE Turn(flow)[w].out.kind = "error"
<1> DEFINE node == flow.nodes[w.current]
<1>0. /\ w.current \in NodeIds /\ w.answers \in SUBSET Fields
      /\ w.out \in [kind : {"object", "scalar", "error", "limit"}, object : Objects]
  BY DEF Walkers
<1>1. CASE ~Walking(w)
  BY <1>1 DEF Turn
<1>2. CASE Walking(w) /\ GoesOn(flow, w)
  <2>1. ~IsAt(flow, w, "template")
    BY <1>2 DEF GoesOn, IsAt
  <2>2. Turn(flow)[w] = Walker(node.next, ApplyQuestions(node, w.answers), w.out)
    BY <1>2, <2>1 DEF Turn
  <2>3. node.next \in NodeIds /\ ApplyQuestions(node, w.answers) \in SUBSET Fields
    <3>1. node \in Nodes /\ node.component = "questions" /\ node.next \in NodeIds
      BY <1>2 DEF GoesOn, IsAt, IsFlow
    <3>2. node.required \subseteq Fields /\ node.optional \subseteq Fields
      BY <3>1 DEF Nodes
    <3> QED
      BY <1>0, <3>1, <3>2 DEF ApplyQuestions
  <2>4. Turn(flow)[w] \in Walkers
    BY <1>0, <2>2, <2>3 DEF Walkers, Walker
  <2> QED
    BY <1>2, <2>2, <2>4, WalkerIs DEF Walking
<1>3. CASE Walking(w) /\ ~GoesOn(flow, w) /\ IsAt(flow, w, "template")
  <2>1. Turn(flow)[w] = Walker(w.current, w.answers, RenderTemplate(node))
    BY <1>3 DEF Turn
  <2>2. node.renders \in {"object", "scalar", "invalid"} /\ node.object \in Objects
    BY <1>3 DEF IsAt, IsFlow, Nodes
  <2>3. RenderTemplate(node) \in [kind : {"object", "scalar", "error"}, object : Objects]
    BY <2>2 DEF RenderTemplate, Failed, Outcome, EmptyObject, Objects
  <2>4. Turn(flow)[w] \in Walkers
    BY <1>0, <2>1, <2>3 DEF Walkers, Walker
  <2> QED
    BY <1>3, <2>1, <2>3, <2>4, WalkerIs DEF Walking
<1>4. CASE Walking(w) /\ ~GoesOn(flow, w) /\ ~IsAt(flow, w, "template")
  <2>1. Turn(flow)[w] = Walker(w.current, w.answers, Failed("error"))
    BY <1>4 DEF Turn
  <2> QED
    BY <1>0, <1>4, <2>1, WalkerIs, WalkerType, OutcomeIs DEF Walking
<1> QED
  BY <1>1, <1>2, <1>3, <1>4

LEMMA WalkIsWalk ==
  ASSUME NEW flow, IsFlow(flow), NEW given \in SUBSET Fields
  PROVE  IsWalk(Walk(flow, given), flow, given)
<1> DEFINE first == Walker(Entry(flow), given, Failed("limit"))
           Solves(f, m) ==
             f = [k \in 0 .. m |-> IF k = 0 THEN first ELSE Turn(flow)[f[k - 1]]]
           Bad == {m \in Nat : ~\E f : Solves(f, m)}
           L == TraversalLimit(flow)
<1>1. L \in Nat
  BY LimitIs
<1>2. Bad = {}
  <2> SUFFICES ASSUME Bad # {}
               PROVE  FALSE
    OBVIOUS
  <2>1. PICK m \in Bad : \A e \in Bad : m <= e
    <3>1. Bad \subseteq Nat
      OBVIOUS
    <3> HIDE DEF Bad
    <3> QED
      BY <3>1, LeastOf
  <2>2. CASE m = 0
    <3>1. Solves([k \in 0 .. 0 |-> first], 0)
      OBVIOUS
    <3> QED
      BY <2>2, <3>1
  <2>3. CASE m # 0
    <3>0. m \in Nat
      OBVIOUS
    <3>1. m - 1 \in Nat /\ m - 1 \notin Bad
      <4> HIDE DEF Bad
      <4> QED
        BY <2>1, <2>3, <3>0
    <3>2. PICK f : Solves(f, m - 1)
      BY <3>1
    <3> DEFINE g == [k \in 0 .. m |-> IF k = m THEN Turn(flow)[f[m - 1]] ELSE f[k]]
    <3>3. \A k \in 0 .. (m - 1) : g[k] = f[k]
      BY <2>1
    <3>4. ASSUME NEW k \in 0 .. m
          PROVE  g[k] = IF k = 0 THEN first ELSE Turn(flow)[g[k - 1]]
      <4>1. CASE k = m
        BY <2>3, <3>1, <3>3, <4>1
      <4>2. CASE k # m
        <5>1. k \in 0 .. (m - 1)
          BY <2>1, <4>2
        <5>2. f[k] = IF k = 0 THEN first ELSE Turn(flow)[f[k - 1]]
          <6> HIDE DEF first
          <6> QED
            BY <3>2, <5>1
        <5>3. k # 0 => g[k - 1] = f[k - 1]
          BY <3>3, <5>1
        <5> QED
          BY <3>3, <5>1, <5>2, <5>3
      <4> QED
        BY <4>1, <4>2
    <3>5. Solves(g, m)
      <4>1. g = [k \in 0 .. m |-> g[k]]
        OBVIOUS
      <4> HIDE DEF g, first
      <4>2. [k \in 0 .. m |-> g[k]]
              = [k \in 0 .. m |-> IF k = 0 THEN first ELSE Turn(flow)[g[k - 1]]]
        BY <3>4
      <4> QED
        BY <4>1, <4>2
    <3> QED
      BY <3>5
  <2> QED
    BY <2>2, <2>3
<1>3. \E f : Solves(f, L)
  BY <1>1, <1>2
<1>4. Solves(Walk(flow, given), L)
  <2> HIDE DEF first
  <2>1. Walk(flow, given) = CHOOSE f : Solves(f, L)
    BY DEF Walk, first
  <2> QED
    BY <1>3, <2>1
<1> HIDE DEF first
<1>5. Walk(flow, given)[0] = first
  BY <1>1, <1>4
<1>6. ASSUME NEW k \in 1 .. L
      PROVE  Walk(flow, given)[k] = Turn(flow)[Walk(flow, given)[k - 1]]
  BY <1>1, <1>4
<1>7. first \in Walkers
  <2>1. Entry(flow) \in NodeIds
    BY FlowAssumption DEF Entry, IsFlow
  <2> QED
    BY <2>1, WalkerType DEF first
<1>8. ASSUME NEW k \in 0 .. L
      PROVE  Walk(flow, given)[k] \in Walkers
  <2> DEFINE W == Walk(flow, given)
             Untyped == {m \in 0 .. L : W[m] \notin Walkers}
  <2>1. Untyped = {}
    <3> SUFFICES ASSUME Untyped # {}
                 PROVE  FALSE
      OBVIOUS
    <3>1. PICK m \in Untyped : \A e \in Untyped : m <= e
      <4>1. Untyped \subseteq Nat
        BY <1>1
      <4> HIDE DEF Untyped
      <4> QED
        BY <4>1, LeastOf
    <3>2. m # 0
      BY <1>5, <1>7, <3>1
    <3>3. m \in 1 .. L /\ m - 1 \in 0 .. L /\ m - 1 < m
      BY <1>1, <3>1, <3>2
    <3>4. W[m - 1] \in Walkers
      BY <3>1, <3>3
    <3>5. W[m] = Turn(flow)[W[m - 1]]
      BY <1>6, <3>3
    <3> QED
      BY <3>1, <3>4, <3>5, TurnIs
  <2> QED
    BY <2>1
<1> QED
  BY <1>5, <1>6, <1>8 DEF IsWalk, first

LEMMA StepBack ==
  ASSUME NEW flow, IsFlow(flow), NEW given, NEW W, IsWalk(W, flow, given),
         NEW k \in 1 .. TraversalLimit(flow), Walking(W[k])
  PROVE  /\ Walking(W[k - 1]) /\ GoesOn(flow, W[k - 1])
         /\ W[k].current = flow.nodes[W[k - 1].current].next
         /\ W[k].answers = ApplyQuestions(flow.nodes[W[k - 1].current], W[k - 1].answers)
<1>1. W[k] = Turn(flow)[W[k - 1]] /\ W[k - 1] \in Walkers
  BY LimitIs DEF IsWalk
<1> QED
  BY <1>1, TurnIs

\* A walk that goes on has always gone on.
LEMMA WentOn ==
  ASSUME NEW flow, IsFlow(flow), NEW given, NEW W, IsWalk(W, flow, given),
         NEW k \in 0 .. TraversalLimit(flow), Walking(W[k]), NEW j \in 0 .. k
  PROVE  Walking(W[j])
<1>0. TraversalLimit(flow) \in Nat
  BY LimitIs
<1> DEFINE Bad == {d \in 0 .. k : ~Walking(W[k - d])}
<1>1. Bad = {}
  <2> SUFFICES ASSUME Bad # {}
               PROVE  FALSE
    OBVIOUS
  <2>1. PICK d \in Bad : \A e \in Bad : d <= e
    <3>1. Bad \subseteq Nat
      BY <1>0
    <3> HIDE DEF Bad
    <3> QED
      BY <3>1, LeastOf
  <2>2. d # 0
    BY <1>0, <2>1
  <2>3. d - 1 \in 0 .. k /\ d - 1 \notin Bad
    BY <1>0, <2>1, <2>2
  <2>4. Walking(W[k - (d - 1)]) /\ k - (d - 1) \in 1 .. TraversalLimit(flow)
    BY <1>0, <2>1, <2>3
  <2>5. Walking(W[(k - (d - 1)) - 1])
    BY <2>4, StepBack
  <2>6. (k - (d - 1)) - 1 = k - d
    BY <1>0, <2>1
  <2> QED
    BY <2>1, <2>5, <2>6
<1>2. k - j \in 0 .. k /\ k - (k - j) = j
  BY <1>0
<1>3. k - j \notin Bad
  BY <1>1
<1> QED
  BY <1>2, <1>3

\* A walk that has returned stays.
LEMMA HasReturned ==
  ASSUME NEW flow, IsFlow(flow), NEW given, NEW W, IsWalk(W, flow, given),
         NEW k \in 0 .. TraversalLimit(flow), ~Walking(W[k]),
         NEW j \in k .. TraversalLimit(flow)
  PROVE  W[j] = W[k]
<1>0. TraversalLimit(flow) \in Nat
  BY LimitIs
<1> DEFINE Bad == {m \in k .. TraversalLimit(flow) : W[m] # W[k]}
<1>1. Bad = {}
  <2> SUFFICES ASSUME Bad # {}
               PROVE  FALSE
    OBVIOUS
  <2>1. PICK m \in Bad : \A e \in Bad : m <= e
    <3>1. Bad \subseteq Nat
      BY <1>0
    <3> HIDE DEF Bad
    <3> QED
      BY <3>1, LeastOf
  <2>2. m # k /\ m \in k .. TraversalLimit(flow) /\ W[m] # W[k]
    BY <2>1
  <2>3. m - 1 \in k .. TraversalLimit(flow) /\ m - 1 < m /\ m \in 1 .. TraversalLimit(flow)
    BY <1>0, <2>2
  <2>4. m - 1 \notin Bad
    BY <1>0, <2>1, <2>3
  <2>5. W[m - 1] = W[k]
    BY <2>3, <2>4
  <2>6. W[m] = Turn(flow)[W[m - 1]] /\ W[k] \in Walkers
    BY <1>0, <2>3 DEF IsWalk
  <2> QED
    BY <2>2, <2>5, <2>6, TurnIs
<1> QED
  BY <1>1

\* What is known before the i-th node of a path grows by what the nodes ask.
LEMMA KnownGrows ==
  ASSUME NEW flow, NEW path, NEW given, NEW i \in Nat \ {0}
  PROVE  /\ KnownBefore(flow, path, given, 1) = given
         /\ KnownBefore(flow, path, given, i + 1)
              = ApplyQuestions(flow.nodes[path[i]], KnownBefore(flow, path, given, i))
         /\ \A j \in Nat : i <= j =>
              KnownBefore(flow, path, given, i) \subseteq KnownBefore(flow, path, given, j)
<1> DEFINE Asked(j) == flow.nodes[path[j]].required \cup flow.nodes[path[j]].optional
<1>1. 1 .. (1 - 1) = {} /\ 1 .. ((i + 1) - 1) = (1 .. (i - 1)) \cup {i}
  OBVIOUS
<1>2. \A j \in Nat : i <= j => 1 .. (i - 1) \subseteq 1 .. (j - 1)
  OBVIOUS
<1>3. KnownBefore(flow, path, given, 1) = given
  BY <1>1 DEF KnownBefore
<1>4. \A k : KnownBefore(flow, path, given, k) = given \cup UNION {Asked(j) : j \in 1 .. (k - 1)}
  BY DEF KnownBefore
<1>5. ApplyQuestions(flow.nodes[path[i]], KnownBefore(flow, path, given, i))
        = KnownBefore(flow, path, given, i) \cup Asked(i)
  BY DEF ApplyQuestions
<1> HIDE DEF Asked
<1>6. KnownBefore(flow, path, given, i + 1) = KnownBefore(flow, path, given, i) \cup Asked(i)
  BY <1>1, <1>4
<1>7. ASSUME NEW j \in Nat, i <= j
      PROVE  KnownBefore(flow, path, given, i) \subseteq KnownBefore(flow, path, given, j)
  BY <1>2, <1>4, <1>7
<1> QED
  BY <1>3, <1>5, <1>6, <1>7

\* What the walk knows at a node is what its path has asked for.
LEMMA WalkKnows ==
  ASSUME NEW flow, IsFlow(flow), NEW given, NEW W, IsWalk(W, flow, given),
         NEW n \in 1 .. TraversalLimit(flow), Walking(W[n - 1]),
         NEW path, \A i \in 1 .. n : path[i] = W[i - 1].current,
         NEW k \in 1 .. n
  PROVE  W[k - 1].answers = KnownBefore(flow, path, given, k)
<1>0. TraversalLimit(flow) \in Nat /\ n - 1 \in 0 .. TraversalLimit(flow)
  BY LimitIs
<1> DEFINE Bad == {m \in 1 .. n : W[m - 1].answers # KnownBefore(flow, path, given, m)}
<1>1. Bad = {}
  <2> SUFFICES ASSUME Bad # {}
               PROVE  FALSE
    OBVIOUS
  <2>1. PICK m \in Bad : \A e \in Bad : m <= e
    <3>1. Bad \subseteq Nat
      BY <1>0
    <3> HIDE DEF Bad
    <3> QED
      BY <3>1, LeastOf
  <2>2. CASE m = 1
    <3>1. W[m - 1].answers = given
      BY <2>2, WalkerIs DEF IsWalk
    <3> QED
      BY <2>1, <2>2, <3>1, KnownGrows
  <2>3. CASE m # 1
    <3>1. m \in 1 .. n
      BY <2>1
    <3>2. /\ m - 1 \in 1 .. n /\ m - 1 < m /\ m - 1 \in 1 .. TraversalLimit(flow)
          /\ m - 1 \in 0 .. (n - 1) /\ m - 1 \in Nat \ {0} /\ (m - 1) + 1 = m
      BY <1>0, <2>3, <3>1
    <3>3. W[(m - 1) - 1].answers = KnownBefore(flow, path, given, m - 1)
      BY <2>1, <3>2
    <3>4. Walking(W[m - 1])
      BY <1>0, <3>2, WentOn
    <3>5. W[m - 1].answers
            = ApplyQuestions(flow.nodes[W[(m - 1) - 1].current], W[(m - 1) - 1].answers)
      BY <3>2, <3>4, StepBack
    <3>6. path[m - 1] = W[(m - 1) - 1].current
      BY <3>2
    <3>7. KnownBefore(flow, path, given, m)
            = ApplyQuestions(flow.nodes[path[m - 1]], KnownBefore(flow, path, given, m - 1))
      <4>1. KnownBefore(flow, path, given, (m - 1) + 1)
              = ApplyQuestions(flow.nodes[path[m - 1]], KnownBefore(flow, path, given, m - 1))
        BY <3>2, KnownGrows
      <4> QED
        BY <3>2, <4>1
    <3> QED
      BY <2>1, <3>3, <3>5, <3>6, <3>7
  <2> QED
    BY <2>2, <2>3
<1> QED
  BY <1>1

\* Answers are never forgotten.
LEMMA AnswersGrow ==
  ASSUME NEW flow, IsFlow(flow), NEW given, NEW W, IsWalk(W, flow, given),
         NEW j \in 0 .. (TraversalLimit(flow) - 1), Walking(W[j]), NEW i \in 0 .. j
  PROVE  W[i].answers \subseteq W[j].answers
<1>0. TraversalLimit(flow) \in Nat
  BY LimitIs
<1> DEFINE path == [k \in 1 .. (j + 1) |-> W[k - 1].current]
<1>1. \A k \in 1 .. (j + 1) : path[k] = W[k - 1].current
  OBVIOUS
<1> HIDE DEF path
<1>2. /\ j + 1 \in 1 .. TraversalLimit(flow) /\ (j + 1) - 1 = j
      /\ i + 1 \in 1 .. (j + 1) /\ j + 1 \in 1 .. (j + 1) /\ (i + 1) - 1 = i
      /\ i + 1 \in Nat \ {0} /\ j + 1 \in Nat /\ i + 1 <= j + 1
  BY <1>0
<1>3. W[(i + 1) - 1].answers = KnownBefore(flow, path, given, i + 1)
  BY <1>1, <1>2, WalkKnows
<1>4. W[(j + 1) - 1].answers = KnownBefore(flow, path, given, j + 1)
  BY <1>1, <1>2, WalkKnows
<1>5. KnownBefore(flow, path, given, i + 1) \subseteq KnownBefore(flow, path, given, j + 1)
  BY <1>2, KnownGrows
<1> QED
  BY <1>2, <1>3, <1>4, <1>5

\* From a node it has been at, the walk takes the way it took before.
LEMMA SameWay ==
  ASSUME NEW flow, IsFlow(flow), NEW given, NEW W, IsWalk(W, flow, given),
         NEW i \in Nat, NEW j \in Nat, i < j, W[i].current = W[j].current,
         NEW m \in Nat, j + m <= TraversalLimit(flow), Walking(W[j + m])
  PROVE  W[i + m].current = W[j + m].current
<1>0. TraversalLimit(flow) \in Nat
  BY LimitIs
<1> DEFINE Bad == {d \in 0 .. m : W[i + d].current # W[j + d].current}
<1>1. Bad = {}
  <2> SUFFICES ASSUME Bad # {}
               PROVE  FALSE
    OBVIOUS
  <2>1. PICK d \in Bad : \A e \in Bad : d <= e
    <3>1. Bad \subseteq Nat
      OBVIOUS
    <3> HIDE DEF Bad
    <3> QED
      BY <3>1, LeastOf
  <2>2. d \in 0 .. m /\ W[i + d].current # W[j + d].current
    BY <2>1
  <2>3. d # 0
    BY <2>2
  <2>4. d - 1 \in 0 .. m /\ d - 1 < d
    BY <2>2, <2>3
  <2>5. W[i + (d - 1)].current = W[j + (d - 1)].current
    BY <2>1, <2>2, <2>4
  <2>6. /\ j + d \in 0 .. (j + m) /\ i + d \in 0 .. (j + m)
        /\ j + m \in 0 .. TraversalLimit(flow)
        /\ j + d \in 1 .. TraversalLimit(flow) /\ i + d \in 1 .. TraversalLimit(flow)
        /\ (j + d) - 1 = j + (d - 1) /\ (i + d) - 1 = i + (d - 1)
    BY <1>0, <2>2, <2>3
  <2>7. Walking(W[j + d]) /\ Walking(W[i + d])
    BY <2>6, WentOn
  <2>8. /\ W[j + d].current = flow.nodes[W[(j + d) - 1].current].next
        /\ W[i + d].current = flow.nodes[W[(i + d) - 1].current].next
    BY <2>6, <2>7, StepBack
  <2> QED
    BY <2>2, <2>5, <2>6, <2>8
<1>2. m \in 0 .. m
  OBVIOUS
<1> QED
  BY <1>1, <1>2

\* Back at a node it has been at, the walk only ends at the limit.
LEMMA RunsOn ==
  ASSUME NEW flow, IsFlow(flow), NEW given, NEW W, IsWalk(W, flow, given),
         NEW i \in Nat, NEW j \in Nat, i < j, W[i].current = W[j].current,
         j <= TraversalLimit(flow), Walking(W[j]),
         NEW k \in j .. TraversalLimit(flow)
  PROVE  Walking(W[k])
<1>0. TraversalLimit(flow) \in Nat
  BY LimitIs
<1> DEFINE L == TraversalLimit(flow)
           Bad == {m \in j .. L : ~Walking(W[m])}
<1>1. Bad = {}
  <2> SUFFICES ASSUME Bad # {}
               PROVE  FALSE
    OBVIOUS
  <2>1. PICK m \in Bad : \A e \in Bad : m <= e
    <3>1. Bad \subseteq Nat
      BY <1>0
    <3> HIDE DEF Bad
    <3> QED
      BY <3>1, LeastOf
  <2>2. m \in j .. L /\ ~Walking(W[m])
    BY <2>1
  <2>3. m # j
    BY <2>2
  <2> DEFINE last == m - 1
             ago == m - 1 - (j - i)
             gap == m - 1 - j
  <2>4. /\ last \in j .. L /\ last < m /\ last \in 0 .. (L - 1) /\ last + 1 = m
        /\ gap \in Nat /\ j + gap = last /\ i + gap = ago /\ j + gap <= L
        /\ ago \in 0 .. last /\ ago + 1 \in 1 .. L /\ ago + 1 \in 0 .. last
        /\ (ago + 1) - 1 = ago /\ m \in 1 .. L /\ m - 1 = last /\ last \in 0 .. L
    BY <1>0, <2>2, <2>3
  <2> HIDE DEF last, ago, gap
  <2>5. Walking(W[last])
    BY <2>1, <2>4
  <2>6. W[ago].current = W[last].current
    <3>1. W[i + gap].current = W[j + gap].current
      BY <2>4, <2>5, SameWay
    <3> QED
      BY <2>4, <3>1
  <2>7. GoesOn(flow, W[ago])
    <3>1. Walking(W[ago + 1])
      BY <2>4, <2>5, WentOn
    <3> QED
      BY <2>4, <3>1, StepBack
  <2>8. W[ago].answers \subseteq W[last].answers
    BY <2>4, <2>5, AnswersGrow
  <2>9. GoesOn(flow, W[last])
    BY <2>6, <2>7, <2>8 DEF GoesOn, IsAt
  <2>10. W[m] = Turn(flow)[W[m - 1]] /\ W[last] \in Walkers
    BY <2>4 DEF IsWalk
  <2> QED
    BY <2>2, <2>4, <2>5, <2>9, <2>10, TurnIs
<1> QED
  BY <1>1

\* The walk follows every trail.
LEMMA TrailWalked ==
  ASSUME NEW flow, IsFlow(flow), NEW given, NEW W, IsWalk(W, flow, given),
         NEW path \in Trails(flow, given)
  PROVE  \E n \in 1 .. Cardinality(DOMAIN flow.nodes) :
           /\ DOMAIN path = 1 .. n /\ Cardinality(DOMAIN path) = n
           /\ LastOf(path) = W[n - 1].current
           /\ W[n - 1].answers = KnownBefore(flow, path, given, n)
           /\ \A k \in 1 .. n : Walking(W[k - 1]) /\ W[k - 1].current = path[k]
<1> DEFINE N == Cardinality(DOMAIN flow.nodes)
           L == TraversalLimit(flow)
<1>0. N \in Nat /\ L = N + 4
  BY LimitIs
<1>1. PICK n \in 1 .. N : path \in [1 .. n -> DOMAIN flow.nodes]
  BY DEF Trails
<1>2. IsTrail(flow, path, given)
  BY DEF Trails
<1>3. DOMAIN path = 1 .. n /\ Cardinality(DOMAIN path) = n
  <2>1. n \in Int /\ ~(1 > n) /\ n - 1 + 1 = n
    BY <1>0
  <2>2. DOMAIN path = 1 .. n
    BY <1>1
  <2> QED
    BY <2>1, <2>2, FS_Interval
<1> HIDE DEF N, L
<1> DEFINE Bad == {k \in 1 .. n : ~(Walking(W[k - 1]) /\ W[k - 1].current = path[k])}
<1>4. Bad = {}
  <2> SUFFICES ASSUME Bad # {}
               PROVE  FALSE
    OBVIOUS
  <2>1. PICK m \in Bad : \A e \in Bad : m <= e
    <3>1. Bad \subseteq Nat
      BY <1>0
    <3> HIDE DEF Bad
    <3> QED
      BY <3>1, LeastOf
  <2>2. m \in 1 .. n /\ ~(Walking(W[m - 1]) /\ W[m - 1].current = path[m])
    BY <2>1
  <2>3. CASE m = 1
    <3>1. W[m - 1] = Walker(Entry(flow), given, Failed("limit"))
      BY <2>3 DEF IsWalk
    <3> QED
      BY <1>2, <2>2, <2>3, <3>1, WalkerIs, OutcomeIs DEF IsTrail, Walking
  <2>4. CASE m # 1
    <3> DEFINE b == m - 1
    <3>1. /\ b \in 1 .. n /\ b # n /\ b \in 1 .. L /\ b + 1 = m /\ b <= b
          /\ b - 1 \in 0 .. L /\ \A k \in 1 .. b : k \in 1 .. n /\ k < m
      BY <1>0, <2>2, <2>4
    <3>2. b = m - 1 /\ b \in 1 .. b
      BY <3>1
    <3> HIDE DEF b
    <3>3. \A k \in 1 .. b : k \notin Bad
      BY <2>1, <3>1
    <3>4. \A k \in 1 .. b : Walking(W[k - 1]) /\ W[k - 1].current = path[k]
      BY <3>1, <3>3
    <3>5. W[b - 1].answers = KnownBefore(flow, path, given, b)
      <4>1. b \in 1 .. TraversalLimit(flow)
        BY <3>1 DEF L
      <4>2. Walking(W[b - 1]) /\ \A k \in 1 .. b : path[k] = W[k - 1].current
        BY <3>2, <3>4
      <4> QED
        BY <3>2, <4>1, <4>2, WalkKnows
    <3>6. /\ flow.nodes[path[b]].component = "questions"
          /\ flow.nodes[path[b]].required \subseteq KnownBefore(flow, path, given, b)
          /\ flow.nodes[path[b]].next = path[b + 1]
      BY <1>2, <1>3, <3>1 DEF IsTrail
    <3>7. path[b] \in DOMAIN flow.nodes /\ path[b + 1] \in NodeIds
      BY <1>1, <2>2, <3>1 DEF IsFlow
    <3>8. Walking(W[b - 1]) /\ W[b - 1].current = path[b]
      BY <3>2, <3>4
    <3>9. GoesOn(flow, W[b - 1])
      BY <3>5, <3>6, <3>7, <3>8 DEF GoesOn, IsAt
    <3>10. W[b] = Turn(flow)[W[b - 1]] /\ W[b - 1] \in Walkers
      BY <3>1 DEF IsWalk, L
    <3>11. Walking(W[b]) /\ W[b].current = path[m]
      BY <3>1, <3>6, <3>8, <3>9, <3>10, TurnIs
    <3> QED
      BY <2>2, <3>2, <3>11
  <2> QED
    BY <2>3, <2>4
<1>5. \A k \in 1 .. n : Walking(W[k - 1]) /\ W[k - 1].current = path[k]
  BY <1>4
<1>6. n \in 1 .. n /\ n \in 1 .. L
  BY <1>0
<1>7. W[n - 1].answers = KnownBefore(flow, path, given, n)
  <2>1. n \in 1 .. TraversalLimit(flow)
    BY <1>6 DEF L
  <2>2. Walking(W[n - 1]) /\ \A k \in 1 .. n : path[k] = W[k - 1].current
    BY <1>5, <1>6
  <2> QED
    BY <1>6, <2>1, <2>2, WalkKnows
<1>8. LastOf(path) = W[n - 1].current
  BY <1>3, <1>5, <1>6 DEF LastOf
<1> QED
  BY <1>3, <1>5, <1>7, <1>8 DEF N

\* As long as it comes to different nodes, the walk is a trail.
LEMMA WalkedTrail ==
  ASSUME NEW flow, IsFlow(flow), NEW given, NEW W, IsWalk(W, flow, given),
         NEW n \in 1 .. TraversalLimit(flow), Walking(W[n - 1]),
         \A i \in 0 .. (n - 1) : W[i].current \in DOMAIN flow.nodes,
         \A i, j \in 0 .. (n - 1) : W[i].current = W[j].current => i = j
  PROVE  \E path \in Trails(flow, given) :
           /\ DOMAIN path = 1 .. n /\ Cardinality(DOMAIN path) = n
           /\ LastOf(path) = W[n - 1].current
           /\ KnownBefore(flow, path, given, n) = W[n - 1].answers
           /\ \A k \in 1 .. n : path[k] = W[k - 1].current
<1> DEFINE N == Cardinality(DOMAIN flow.nodes)
           path == [k \in 1 .. n |-> W[k - 1].current]
<1>0. /\ N \in Nat /\ TraversalLimit(flow) = N + 4
      /\ IsFiniteSet(DOMAIN flow.nodes)
      /\ n \in Nat /\ n \in 1 .. n
  BY LimitIs
<1>1. \A k \in 1 .. n : path[k] = W[k - 1].current /\ k - 1 \in 0 .. (n - 1)
  BY <1>0
<1>2. path \in [1 .. n -> DOMAIN flow.nodes]
  BY <1>1
<1>3. \A i, j \in 1 .. n : path[i] = path[j] => i = j
  <2> SUFFICES ASSUME NEW i \in 1 .. n, NEW j \in 1 .. n, path[i] = path[j]
               PROVE  i = j
    OBVIOUS
  <2>1. i - 1 = j - 1
    BY <1>1
  <2> QED
    BY <2>1
<1>4. DOMAIN path = 1 .. n
  OBVIOUS
<1> HIDE DEF path, N
<1>5. IsFiniteSet(1 .. n) /\ Cardinality(1 .. n) = n
  <2>1. ~(1 > n) /\ n - 1 + 1 = n /\ n \in Int
    BY <1>0
  <2> QED
    BY <2>1, FS_Interval
<1>6. n <= N
  <2> SUFFICES ASSUME ~(n <= N)
               PROVE  FALSE
    OBVIOUS
  <2>1. Cardinality(DOMAIN flow.nodes) < Cardinality(1 .. n)
    BY <1>0, <1>5 DEF N
  <2>2. \E x, y \in 1 .. n : x # y /\ path[x] = path[y]
    BY <1>0, <1>2, <1>5, <2>1, FS_PigeonHole
  <2> QED
    BY <1>3, <2>2
<1>7. \A k \in 1 .. n : W[k - 1].answers = KnownBefore(flow, path, given, k)
  BY <1>1, WalkKnows
<1>8. path[1] = Entry(flow)
  <2>1. 1 \in 1 .. n /\ path[1] = W[1 - 1].current
    BY <1>0, <1>1
  <2> QED
    BY <2>1, WalkerIs DEF IsWalk
<1>9. ASSUME NEW i \in (1 .. n) \ {n}
      PROVE  /\ flow.nodes[path[i]].component = "questions"
             /\ flow.nodes[path[i]].required \subseteq KnownBefore(flow, path, given, i)
             /\ flow.nodes[path[i]].next = path[i + 1]
  <2>1. /\ i \in 1 .. n /\ i + 1 \in 1 .. n /\ (i + 1) - 1 = i
        /\ i \in 1 .. TraversalLimit(flow) /\ i \in 0 .. (n - 1)
        /\ n - 1 \in 0 .. TraversalLimit(flow)
    BY <1>0
  <2>2. Walking(W[i])
    BY <2>1, WentOn
  <2>3. GoesOn(flow, W[i - 1]) /\ W[i].current = flow.nodes[W[i - 1].current].next
    BY <2>1, <2>2, StepBack
  <2>4. path[i] = W[i - 1].current /\ path[i + 1] = W[i].current
    BY <1>1, <2>1
  <2> QED
    BY <1>7, <2>1, <2>3, <2>4 DEF GoesOn, IsAt
<1>10. IsTrail(flow, path, given)
  BY <1>3, <1>4, <1>5, <1>8, <1>9 DEF IsTrail
<1>11. path \in Trails(flow, given)
  <2>1. n \in 1 .. Cardinality(DOMAIN flow.nodes)
    BY <1>0, <1>6 DEF N
  <2> QED
    BY <1>2, <1>10, <2>1 DEF Trails
<1>12. LastOf(path) = W[n - 1].current
  BY <1>0, <1>1, <1>4, <1>5 DEF LastOf
<1> QED
  BY <1>0, <1>1, <1>4, <1>5, <1>7, <1>11, <1>12

\* A walk that reaches the limit has been at some node twice, and up to the
\* first such moment it is a trail that runs into itself.
LEMMA LimitMeansCycle ==
  ASSUME NEW flow, IsFlow(flow), NEW given, NEW W, IsWalk(W, flow, given),
         Walking(W[TraversalLimit(flow)])
  PROVE  Cycles(flow, given)
<1> DEFINE L == TraversalLimit(flow)
           Seen(j) == \E i \in 0 .. (j - 1) : W[i].current = W[j].current
           Again == {j \in 1 .. (L - 1) : Seen(j)}
<1>0. /\ L \in Nat /\ Cardinality(DOMAIN flow.nodes) < L
      /\ IsFiniteSet(DOMAIN flow.nodes) /\ L \in 0 .. L
  BY LimitIs
<1>1. \A k \in 0 .. (L - 1) :
        /\ Walking(W[k]) /\ Walking(W[k + 1]) /\ GoesOn(flow, W[k])
        /\ W[k].current \in DOMAIN flow.nodes
        /\ W[k + 1].current = flow.nodes[W[k].current].next
  <2> SUFFICES ASSUME NEW k \in 0 .. (L - 1)
               PROVE  /\ Walking(W[k]) /\ Walking(W[k + 1]) /\ GoesOn(flow, W[k])
                      /\ W[k].current \in DOMAIN flow.nodes
                      /\ W[k + 1].current = flow.nodes[W[k].current].next
    OBVIOUS
  <2>1. k + 1 \in 0 .. L /\ k + 1 \in 1 .. L /\ (k + 1) - 1 = k
    BY <1>0
  <2>2. Walking(W[k + 1])
    BY <1>0, <2>1, WentOn
  <2>3. /\ Walking(W[k]) /\ GoesOn(flow, W[k])
        /\ W[k + 1].current = flow.nodes[W[k].current].next
    BY <2>1, <2>2, StepBack
  <2> QED
    BY <2>2, <2>3 DEF GoesOn, IsAt
<1>2. Again # {}
  <2> DEFINE at == [k \in 0 .. (L - 1) |-> W[k].current]
  <2>1. at \in [0 .. (L - 1) -> DOMAIN flow.nodes]
    BY <1>1
  <2>2. IsFiniteSet(0 .. (L - 1)) /\ Cardinality(0 .. (L - 1)) = L
    <3>1. 0 \in Int /\ L - 1 \in Int /\ ~(0 > L - 1) /\ (L - 1) - 0 + 1 = L
      BY <1>0, LimitIs
    <3> HIDE DEF L
    <3> QED
      BY <3>1, FS_Interval
  <2>3. \E x, y \in 0 .. (L - 1) : x # y /\ at[x] = at[y]
    <3> HIDE DEF at, L
    <3> QED
      BY <1>0, <2>1, <2>2, FS_PigeonHole
  <2>4. PICK x \in 0 .. (L - 1), y \in 0 .. (L - 1) : x # y /\ W[x].current = W[y].current
    BY <2>3
  <2>5. CASE x < y
    <3>1. y \in 1 .. (L - 1) /\ x \in 0 .. (y - 1)
      BY <1>0, <2>5
    <3> QED
      BY <2>4, <3>1
  <2>6. CASE y < x
    <3>1. x \in 1 .. (L - 1) /\ y \in 0 .. (x - 1)
      BY <1>0, <2>6
    <3> QED
      BY <2>4, <3>1
  <2> QED
    BY <1>0, <2>4, <2>5, <2>6
<1>3. PICK n \in Again : \A e \in Again : n <= e
  <2>1. Again \subseteq Nat
    BY <1>0
  <2> HIDE DEF Again
  <2> QED
    BY <1>2, <2>1, LeastOf
<1>4. n \in 1 .. (L - 1) /\ Seen(n)
  BY <1>3
<1>5. PICK back \in 0 .. (n - 1) : W[back].current = W[n].current
  BY <1>4
<1>6. /\ n \in 1 .. L /\ n \in Nat /\ n - 1 \in 0 .. (L - 1) /\ (n - 1) + 1 = n /\ n \in 1 .. n
      /\ \A i \in 0 .. (n - 1) : i \in 0 .. (L - 1)
      /\ back + 1 \in 1 .. n /\ (back + 1) - 1 = back
  BY <1>0, <1>4
<1>7. ASSUME NEW i \in 0 .. (n - 1), NEW j \in 0 .. (n - 1), W[i].current = W[j].current, i < j
      PROVE  FALSE
  <2>1. j \in 1 .. (L - 1) /\ i \in 0 .. (j - 1) /\ j < n
    BY <1>0, <1>4, <1>7
  <2>2. j \in Again
    BY <1>7, <2>1
  <2>3. n <= j
    BY <1>3, <2>2
  <2> QED
    BY <1>6, <2>1, <2>3
<1>8. \A i, j \in 0 .. (n - 1) : W[i].current = W[j].current => i = j
  <2> SUFFICES ASSUME NEW i \in 0 .. (n - 1), NEW j \in 0 .. (n - 1),
                      W[i].current = W[j].current, i # j
               PROVE  FALSE
    OBVIOUS
  <2>1. i < j \/ j < i
    BY <1>6
  <2> QED
    BY <1>7, <2>1
<1> HIDE DEF Again, Seen
<1>9. PICK path \in Trails(flow, given) :
        /\ DOMAIN path = 1 .. n /\ Cardinality(DOMAIN path) = n
        /\ LastOf(path) = W[n - 1].current
        /\ KnownBefore(flow, path, given, n) = W[n - 1].answers
        /\ \A k \in 1 .. n : path[k] = W[k - 1].current
  <2>1. Walking(W[n - 1]) /\ \A i \in 0 .. (n - 1) : W[i].current \in DOMAIN flow.nodes
    BY <1>1, <1>6
  <2> QED
    BY <1>6, <1>8, <2>1, WalkedTrail
<1>10. /\ GoesOn(flow, W[n - 1])
       /\ W[n].current = flow.nodes[W[n - 1].current].next
  BY <1>1, <1>6
<1>11. path[back + 1] = W[n].current /\ back + 1 \in DOMAIN path
  BY <1>5, <1>6, <1>9
<1> QED
  BY <1>9, <1>10, <1>11 DEF Cycles, GoesOn, IsAt

\* A trail that runs into itself is walked to the limit.
LEMMA CycleMeansLimit ==
  ASSUME NEW flow, IsFlow(flow), NEW given, NEW W, IsWalk(W, flow, given),
         Cycles(flow, given)
  PROVE  Walking(W[TraversalLimit(flow)])
<1> DEFINE L == TraversalLimit(flow)
<1>0. Cardinality(DOMAIN flow.nodes) \in Nat /\ L = Cardinality(DOMAIN flow.nodes) + 4
  BY LimitIs
<1>1. PICK path \in Trails(flow, given) :
        LET node == flow.nodes[LastOf(path)] IN
          /\ node.component = "questions"
          /\ node.required \subseteq KnownBefore(flow, path, given, Cardinality(DOMAIN path))
          /\ \E i \in DOMAIN path : node.next = path[i]
  BY DEF Cycles
<1>2. PICK n \in 1 .. Cardinality(DOMAIN flow.nodes) :
        /\ DOMAIN path = 1 .. n /\ Cardinality(DOMAIN path) = n
        /\ LastOf(path) = W[n - 1].current
        /\ W[n - 1].answers = KnownBefore(flow, path, given, n)
        /\ \A k \in 1 .. n : Walking(W[k - 1]) /\ W[k - 1].current = path[k]
  BY TrailWalked
<1>3. PICK i \in 1 .. n : flow.nodes[W[n - 1].current].next = path[i]
  BY <1>1, <1>2
<1>4. /\ n \in Nat /\ n \in 1 .. n /\ n \in 1 .. L /\ n <= L /\ L \in n .. L
      /\ i - 1 \in Nat /\ i - 1 < n
  BY <1>0
<1>5. /\ \A k \in 1 .. n : path[k] \in DOMAIN flow.nodes /\ path[k] \in NodeIds
  BY <1>2 DEF Trails, IsFlow
<1>6. GoesOn(flow, W[n - 1])
  BY <1>1, <1>2, <1>3, <1>4, <1>5 DEF GoesOn, IsAt
<1>7. W[n] = Turn(flow)[W[n - 1]] /\ W[n - 1] \in Walkers
  BY <1>0, <1>4 DEF IsWalk
<1>8. Walking(W[n - 1]) /\ W[i - 1].current = path[i]
  BY <1>2, <1>4
<1>9. Walking(W[n]) /\ W[n].current = W[i - 1].current
  BY <1>3, <1>6, <1>7, <1>8, TurnIs
<1> QED
  BY <1>4, <1>9, RunsOn

LEMMA RenderedIs ==
  ASSUME NEW node \in Nodes, node.component = "template"
  PROVE  /\ \A kind \in {"object", "scalar"} :
              RenderTemplate(node).kind = kind <=> node.renders = kind
         /\ RenderTemplate(node).kind = "object" => RenderTemplate(node).object = node.object
<1>1. node.renders \in {"object", "scalar", "invalid"}
  BY DEF Nodes
<1>2. CASE node.renders = "object"
  BY <1>2 DEF RenderTemplate, Outcome
<1>3. CASE node.renders = "scalar"
  BY <1>3 DEF RenderTemplate, Outcome, Failed
<1>4. CASE node.renders = "invalid"
  BY <1>4 DEF RenderTemplate, Outcome, Failed
<1> QED
  BY <1>1, <1>2, <1>3, <1>4

\* A walk that returns a document has it from a template at the end of a trail.
LEMMA RenderedOnTrail ==
  ASSUME NEW flow, IsFlow(flow), NEW given, NEW W, IsWalk(W, flow, given),
         W[TraversalLimit(flow)].out.kind \in {"object", "scalar"}
  PROVE  \E node \in Renderings(flow, given) :
           W[TraversalLimit(flow)].out = RenderTemplate(node)
<1> DEFINE L == TraversalLimit(flow)
           Done == {k \in 0 .. L : ~Walking(W[k])}
<1>0. L \in Nat /\ L \in 0 .. L
  BY LimitIs
<1>1. PICK n \in Done : \A e \in Done : n <= e
  <2>1. L \in Done
    BY <1>0 DEF Walking
  <2>2. Done \subseteq Nat
    BY <1>0
  <2> HIDE DEF Done
  <2> QED
    BY <2>1, <2>2, LeastOf
<1>2. n \in 0 .. L /\ ~Walking(W[n])
  BY <1>1
<1>3. n # 0
  BY <1>2, WalkerIs, OutcomeIs DEF IsWalk, Walking
<1>4. /\ n \in 1 .. L /\ n - 1 \in 0 .. L /\ n - 1 < n /\ L \in n .. L /\ n \in 1 .. n
      /\ n - 1 \in 0 .. (n - 1)
  BY <1>0, <1>2, <1>3
<1>5. Walking(W[n - 1])
  <2>1. n - 1 \notin Done
    BY <1>1, <1>4
  <2> QED
    BY <1>4, <2>1
<1>6. W[L] = W[n]
  BY <1>2, <1>4, HasReturned
<1>7. W[n] = Turn(flow)[W[n - 1]] /\ W[n - 1] \in Walkers
  BY <1>4 DEF IsWalk
<1>8. ~GoesOn(flow, W[n - 1])
  BY <1>2, <1>5, <1>7, TurnIs
<1>9. /\ IsAt(flow, W[n - 1], "template")
      /\ W[L].out = RenderTemplate(flow.nodes[W[n - 1].current])
  BY <1>5, <1>6, <1>7, <1>8, TurnIs
<1>10. ASSUME NEW i \in 0 .. (n - 1)
       PROVE  W[i].current \in DOMAIN flow.nodes
  <2>1. CASE i = n - 1
    BY <1>9, <2>1 DEF IsAt
  <2>2. CASE i # n - 1
    <3>1. i + 1 \in 0 .. (n - 1) /\ i + 1 \in 1 .. L /\ (i + 1) - 1 = i
      BY <1>4, <2>2
    <3>2. Walking(W[i + 1])
      BY <1>4, <1>5, <3>1, WentOn
    <3>3. GoesOn(flow, W[i])
      BY <3>1, <3>2, StepBack
    <3> QED
      BY <3>3 DEF GoesOn, IsAt
  <2> QED
    BY <2>1, <2>2
<1>11. ASSUME NEW i \in 0 .. (n - 1), NEW j \in 0 .. (n - 1), W[i].current = W[j].current, i < j
       PROVE  FALSE
  <2>1. /\ i \in Nat /\ j \in Nat /\ j <= L /\ n \in j .. L /\ j \in 0 .. (n - 1)
    BY <1>4
  <2>2. Walking(W[j])
    BY <1>4, <1>5, WentOn
  <2>3. Walking(W[n])
    BY <1>11, <2>1, <2>2, RunsOn
  <2> QED
    BY <1>2, <2>3
<1>12. \A i, j \in 0 .. (n - 1) : W[i].current = W[j].current => i = j
  <2> SUFFICES ASSUME NEW i \in 0 .. (n - 1), NEW j \in 0 .. (n - 1),
                      W[i].current = W[j].current, i # j
               PROVE  FALSE
    OBVIOUS
  <2>1. i < j \/ j < i
    BY <1>4
  <2> QED
    BY <1>11, <2>1
<1>13. PICK path \in Trails(flow, given) : LastOf(path) = W[n - 1].current
  <2>1. \A i \in 0 .. (n - 1) : W[i].current \in DOMAIN flow.nodes
    BY <1>10
  <2> QED
    BY <1>4, <1>5, <1>12, <2>1, WalkedTrail
<1> QED
  BY <1>9, <1>13 DEF Renderings, IsAt

\* A template at the end of a trail is what the walk returns.
LEMMA TrailRendered ==
  ASSUME NEW flow, IsFlow(flow), NEW given, NEW W, IsWalk(W, flow, given),
         NEW node \in Renderings(flow, given)
  PROVE  /\ node \in Nodes /\ node.component = "template"
         /\ W[TraversalLimit(flow)].out = RenderTemplate(node)
<1> DEFINE L == TraversalLimit(flow)
<1>0. Cardinality(DOMAIN flow.nodes) \in Nat /\ L = Cardinality(DOMAIN flow.nodes) + 4
  BY LimitIs
<1>1. PICK path \in Trails(flow, given) :
        node = flow.nodes[LastOf(path)] /\ node.component = "template"
  BY DEF Renderings
<1>2. PICK n \in 1 .. Cardinality(DOMAIN flow.nodes) :
        /\ DOMAIN path = 1 .. n
        /\ LastOf(path) = W[n - 1].current
        /\ \A k \in 1 .. n : Walking(W[k - 1]) /\ W[k - 1].current = path[k]
  BY TrailWalked
<1>3. n \in 1 .. n /\ n \in 1 .. L /\ n \in 0 .. L /\ L \in n .. L
  BY <1>0
<1>4. Walking(W[n - 1]) /\ W[n - 1].current = path[n] /\ path[n] \in DOMAIN flow.nodes
  BY <1>2, <1>3 DEF Trails
<1>5. node \in Nodes /\ IsAt(flow, W[n - 1], "template")
  BY <1>1, <1>2, <1>4 DEF IsFlow, IsAt
<1>6. ~GoesOn(flow, W[n - 1])
  BY <1>5 DEF GoesOn, IsAt
<1>7. W[n] = Turn(flow)[W[n - 1]] /\ W[n - 1] \in Walkers
  BY <1>0, <1>3 DEF IsWalk
<1>8. ~Walking(W[n]) /\ W[n].out = RenderTemplate(node)
  BY <1>1, <1>2, <1>4, <1>5, <1>6, <1>7, TurnIs
<1>9. W[L] = W[n]
  BY <1>3, <1>8, HasReturned
<1> QED
  BY <1>1, <1>5, <1>8, <1>9

\* The walk gives what the flow yields, for every flow and all answers.
LEMMA WalkExact ==
  ASSUME NEW flow, IsFlow(flow), NEW given \in SUBSET Fields
  PROVE  WalkIsExact(flow, given)
<1> DEFINE W == Walk(flow, given)
           out == RunConfigFlow(flow, given)
           Last == W[TraversalLimit(flow)].out
<1>1. IsWalk(W, flow, given)
  BY WalkIsWalk
<1>2. CASE ~flow.loads
  <2>1. out.kind = "error"
    BY <1>2, OutcomeIs DEF RunConfigFlow
  <2> HIDE DEF out
  <2> QED
    BY <1>2, <2>1 DEF WalkIsExact, out
<1>3. CASE flow.loads
  <2>1. out = Last
    BY <1>3 DEF RunConfigFlow
  <2> HIDE DEF out, W
  <2>2. ASSUME NEW r \in {"object", "scalar"}, Last.kind = r
        PROVE  \E node \in Renderings(flow, given) :
                 /\ node.renders = r
                 /\ r = "object" => node.object = Last.object
    <3>1. PICK node \in Renderings(flow, given) : Last = RenderTemplate(node)
      BY <1>1, <2>2, RenderedOnTrail
    <3>2. node \in Nodes /\ node.component = "template"
      BY <1>1, TrailRendered
    <3> QED
      BY <2>2, <3>1, <3>2, RenderedIs
  <2>3. ASSUME NEW r \in {"object", "scalar"}, NEW node \in Renderings(flow, given),
               node.renders = r
        PROVE  Last.kind = r
    BY <1>1, <2>3, TrailRendered, RenderedIs
  <2>4. Last.kind = "limit" <=> Cycles(flow, given)
    BY <1>1, LimitMeansCycle, CycleMeansLimit DEF Walking
  <2>5. \A r \in {"object", "scalar"} :
          (out.kind = r) = \E node \in Renderings(flow, given) : flow.loads /\ node.renders = r
    BY <1>3, <2>1, <2>2, <2>3
  <2>6. out.kind = "object" => \E node \in Renderings(flow, given) : node.object = out.object
    BY <2>1, <2>2
  <2>7. (out.kind = "limit") = (flow.loads /\ Cycles(flow, given))
    BY <1>3, <2>1, <2>4
  <2> QED
    BY <2>5, <2>6, <2>7 DEF WalkIsExact, out
<1> QED
  BY <1>2, <1>3

---------------------------------------------------------------------------
(* The packs of the run *)

PacksAre == \A i \in DOMAIN packs : IsPack(packs[i])

LEMMA InputKept == [Next]_vars => UNCHANGED packs
<1> SUFFICES ASSUME [Next]_vars
             PROVE  UNCHANGED packs
  OBVIOUS
<1>1. CASE Refuse \/ StartRun \/ OpenFails \/ OpenPack \/ SkipStage
  BY <1>1 DEF Refuse, StartRun, OpenFails, PackFails, Push, OpenPack, SkipStage, input
<1>2. CASE FailAtOnce \/ PassAtOnce \/ StageWaits \/ WaitSucceeds \/ WaitFails
  BY <1>2 DEF FailAtOnce, PassAtOnce, StageWaits, WaitSucceeds, WaitFails, StagePasses,
              StageFails, EndStage, PackFails, Push, input
<1>3. CASE StartCommand \/ CommandEnds
  BY <1>3 DEF StartCommand, CommandEnds, NextCommand, LastCommandSucceeds, CommandFails,
              StagePasses, StageFails, EndStage, PackFails, Push, input
<1>4. CASE Expire \/ TimeoutFires
  BY <1>4 DEF Expire, TimeoutFires, PackFails, Push, input
<1>5. CASE ClosePack \/ \E written \in BOOLEAN : Finish(written)
  BY <1>5 DEF ClosePack, Finish, PackFails, Push, input
<1>6. CASE UNCHANGED vars
  BY <1>6 DEF vars
<1> QED
  BY <1>1, <1>2, <1>3, <1>4, <1>5, <1>6 DEF Next, Progress

---------------------------------------------------------------------------
(* The theorems *)

\* A finished run has counted each of its reports once.
LEMMA AllCounted ==
  ASSUME TypeOK, \A i \in DOMAIN reports : reports[i].status \in {"Pass", "Fail"}
  PROVE  Summarize.pass + Summarize.fail = Len(reports) /\ Summarize.skip = 0
<1> DEFINE P == {i \in DOMAIN reports : reports[i].status = "Pass"}
           F == {i \in DOMAIN reports : reports[i].status = "Fail"}
           S == {i \in DOMAIN reports : reports[i].status = "Skip"}
<1>1. DOMAIN reports = 1 .. Len(reports) /\ Len(reports) \in Nat
  BY LenProperties DEF TypeOK
<1>2. IsFiniteSet(DOMAIN reports) /\ Cardinality(DOMAIN reports) = Len(reports)
  BY <1>1, FS_Interval
<1>3. P \cup F = DOMAIN reports /\ P \cap F = {} /\ S = {}
  <2>1. \A i \in DOMAIN reports : i \in P \/ i \in F
    OBVIOUS
  <2>2. \A i : ~(i \in P /\ i \in F) /\ i \notin S
    OBVIOUS
  <2>3. \A i : i \in P \/ i \in F => i \in DOMAIN reports
    OBVIOUS
  <2> HIDE DEF P, F, S
  <2> QED
    BY <2>1, <2>2, <2>3
<1>4. P \subseteq DOMAIN reports /\ F \subseteq DOMAIN reports
  OBVIOUS
<1> HIDE DEF P, F, S
<1>5. IsFiniteSet(P) /\ IsFiniteSet(F)
  BY <1>2, <1>4, FS_Subset
<1>6. Cardinality(P \cup F) = Cardinality(P) + Cardinality(F) - Cardinality(P \cap F)
  BY <1>5, FS_Union
<1>7. Cardinality(P) \in Nat /\ Cardinality(F) \in Nat /\ Cardinality({}) = 0
  BY <1>5, FS_CardinalityType, FS_EmptySet
<1>8. Cardinality(P) + Cardinality(F) = Len(reports) /\ Cardinality(S) = 0
  <2>1. Cardinality(P \cup F) = Len(reports) /\ Cardinality(P \cap F) = 0
        /\ Cardinality(S) = 0
    BY <1>2, <1>3, <1>7
  <2> QED
    BY <1>6, <1>7, <2>1
<1> QED
  BY <1>8 DEF Summarize, Counted, P, F, S

\* Every variable keeps its type while the packs go through their stages.
THEOREM TypeCorrect == Spec => []TypeOK
<1>1. IInv => TypeOK
  BY DEF IInv
<1> QED
  BY <1>1, InitIInv, StepIInv, PTL DEF Spec

\* The verdict of a pack is the one it deserves, whatever the packs before
\* it needed, however long stages waited and whenever the timeout fired
\* (run_pack, overall_status).
THEOREM VerdictsEarned == Spec => []VerdictEarned
<1>1. IInv => VerdictEarned
  BY DEF IInv, ReportInv, GoodReport, Earned, VerdictEarned
<1> QED
  BY <1>1, InitIInv, StepIInv, PTL DEF Spec

\* Every pack gets one report that accounts for its stages, and the summary
\* of a finished run counts every pack once (run_e2e_with, summarize).
THEOREM AllAccountedFor == Spec => []ReportAccountsForAll
<1>1. IInv => ReportAccountsForAll
  <2> SUFFICES ASSUME IInv PROVE ReportAccountsForAll
    OBVIOUS
  <2> USE DEF IInv
  <2>1. \A i \in DOMAIN reports :
          /\ reports[i].pack = i
          /\ reports[i].status \in {"Pass", "Fail"}
          /\ StagewiseReport(reports[i], packs[i]) \/ FailedWhole(reports[i])
    BY DEF ReportInv, GoodReport
  <2>2. ASSUME outcome = "reported"
        PROVE  /\ Len(reports) = Len(packs)
               /\ summary.pass + summary.fail = Len(packs) /\ summary.skip = 0
    <3>1. index = Len(packs) + 1 /\ Len(packs) \in Nat /\ Len(reports) \in Nat
      BY <2>2, LenProperties DEF Loop, TypeOK
    <3>2. Len(reports) = Len(packs)
      BY <3>1 DEF Loop
    <3> QED
      BY <2>1, <2>2, <3>2, AllCounted DEF SummaryInv
  <2> QED
    BY <2>1, <2>2 DEF ReportAccountsForAll, FailedWhole
<1> QED
  BY <1>1, InitIInv, StepIInv, PTL DEF Spec

\* What the walk of a config flow returns is what the trails of the flow say,
\* for flows of any size: the limit on visited nodes (e2e.rs:1189) ends the
\* walks that run in a cycle and no other.
THEOREM FlowsAreWalked == Spec => []FlowsWalkedExactly
<1>1. Init => PacksAre
  BY HarnessAssumption DEF Init, PacksAre
<1>2. PacksAre /\ [Next]_vars => PacksAre'
  BY InputKept DEF PacksAre
<1>3. PacksAre => FlowsWalkedExactly
  <2> SUFFICES ASSUME PacksAre, Active, NEW j \in DOMAIN Pack.flows,
                      NEW given \in {{}, Pack.answers}
               PROVE  WalkIsExact(Pack.flows[j].flow, given)
    BY DEF FlowsWalkedExactly
  <2>1. IsPack(Pack)
    BY DEF PacksAre, Active, Pack
  <2>2. IsFlow(Pack.flows[j].flow) /\ given \in SUBSET Fields
    BY <2>1 DEF IsPack
  <2> QED
    BY <2>2, WalkExact
<1> QED
  BY <1>1, <1>2, <1>3, PTL DEF Spec

=========================================================================
