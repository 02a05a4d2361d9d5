-------------------- MODULE DryRunSubscriptionProofs --------------------
(***************************************************************************)
(* Theorems about DryRunSubscription for every set of events and every     *)
(* capacity of the two channels.                                           *)
(***************************************************************************)
EXTENDS DryRunSubscription, SequenceTheorems, TLAPS

---------------------------------------------------------------------------
(* Sequences *)

LEMMA PartOf ==
  ASSUME NEW S, NEW s \in Seq(S), NEW m \in Nat \ {0}, NEW n \in 0 .. Len(s)
  PROVE  /\ SubSeq(s, m, n) \in Seq(S)
         /\ Len(SubSeq(s, m, n)) = IF m <= n THEN n - m + 1 ELSE 0
         /\ \A i \in 1 .. n - m + 1 : SubSeq(s, m, n)[i] = s[m + i - 1]
<1>1. \A i \in m .. n : s[i] \in S
  BY ElementOfSeq, LenProperties
<1>2. m \in Int /\ n \in Int
  BY LenProperties
<1> QED
  BY <1>1, <1>2, SubSeqProperties

\* What is appended is behind every part there was.
LEMMA PartOfAppend ==
  ASSUME NEW S, NEW s \in Seq(S), NEW e \in S,
         NEW m \in Nat \ {0}, NEW n \in 0 .. Len(s)
  PROVE  SubSeq(Append(s, e), m, n) = SubSeq(s, m, n)
<1> DEFINE t == Append(s, e)
<1>1. /\ t \in Seq(S) /\ Len(t) = Len(s) + 1 /\ Len(s) \in Nat
      /\ \A i \in 1 .. Len(s) : t[i] = s[i]
  BY AppendProperties, LenProperties
<1> HIDE DEF t
<1>2. n \in 0 .. Len(t)
  BY <1>1
<1>3. /\ SubSeq(s, m, n) \in Seq(S) /\ SubSeq(t, m, n) \in Seq(S)
      /\ Len(SubSeq(s, m, n)) = Len(SubSeq(t, m, n))
      /\ Len(SubSeq(s, m, n)) = IF m <= n THEN n - m + 1 ELSE 0
      /\ \A i \in 1 .. n - m + 1 :
           SubSeq(s, m, n)[i] = s[m + i - 1] /\ SubSeq(t, m, n)[i] = t[m + i - 1]
  BY <1>1, <1>2, PartOf
<1>4. \A i \in 1 .. Len(SubSeq(s, m, n)) : SubSeq(s, m, n)[i] = SubSeq(t, m, n)[i]
  <2> TAKE i \in 1 .. Len(SubSeq(s, m, n))
  <2>1. i \in 1 .. n - m + 1 /\ m + i - 1 \in 1 .. Len(s)
    BY <1>1, <1>3
  <2> QED
    BY <1>1, <1>3, <2>1
<1>5. SubSeq(t, m, n) = SubSeq(s, m, n)
  BY <1>3, <1>4, SeqEqual
<1> QED
  BY <1>5 DEF t

\* A part grows by one element at its end.
LEMMA PartGrows ==
  ASSUME NEW S, NEW s \in Seq(S), NEW m \in Nat \ {0}, NEW n \in 0 .. Len(s),
         n < Len(s), m <= n + 1
  PROVE  SubSeq(s, m, n + 1) = SubSeq(s, m, n) \o <<s[n + 1]>> /\ s[n + 1] \in S
<1>1. Len(s) \in Nat /\ m \in 1 .. Len(s) /\ n + 1 \in m .. Len(s) /\ (n + 1) - 1 = n
  BY LenProperties
<1>2. SubSeq(s, m, n + 1) = SubSeq(s, m, (n + 1) - 1) \o <<s[n + 1]>>
  BY <1>1, SubSeqRecursiveSecond
<1>3. s[n + 1] \in S
  BY <1>1, ElementOfSeq
<1> QED
  BY <1>1, <1>2, <1>3

\* Moving the head of t to the end of s changes nothing of s \o t.
LEMMA MoveHead ==
  ASSUME NEW S, NEW s \in Seq(S), NEW t \in Seq(S), t # <<>>
  PROVE  Append(s, Head(t)) \o Tail(t) = s \o t
<1>1. Head(t) \in S /\ Tail(t) \in Seq(S)
  BY HeadTailProperties
<1>2. Append(s, Head(t)) = s \o <<Head(t)>>
  BY <1>1, AppendIsConcat
<1>3. <<Head(t)>> \o Tail(t) = t
  BY <1>1
<1>4. <<Head(t)>> \in Seq(S)
  BY <1>1
<1> QED
  BY <1>1, <1>2, <1>3, <1>4, ConcatAssociative

LEMMA Regroup ==
  \A s, t, u \in Seq(Events) : (s \o t) \o u = s \o (t \o u)
BY ConcatAssociative

LEMMA Joined ==
  \A s, t \in Seq(Events) : s \o t \in Seq(Events)
BY ConcatProperties

LEMMA Nothing ==
  <<>> \in Seq(Events) /\ \A s \in Seq(Events) : s \o <<>> = s
BY EmptySeq, ConcatEmptySeq

---------------------------------------------------------------------------
(* The invariant *)

TypeOK ==
  /\ deliverExisting \in BOOLEAN
  /\ published \in Seq(Events) /\ sent \in Seq(Events)
  /\ phase \in {"none", "replaying", "forwarding", "sending", "ended"}
  /\ snapshot \in Seq(Events) /\ replayed \in 0 .. Len(snapshot)
  /\ joined \in 0 .. Len(sent) /\ cursor \in 0 .. Len(sent)
  /\ held \in Seq(Events) /\ Len(held) <= 1
  /\ channel \in Seq(Events) /\ Len(channel) <= Capacity
  /\ dropped \in BOOLEAN
  /\ received \in Seq(Events)

\* The forwarder holds an event only to send it, and joins the broadcast once;
\* a handle is dropped after it was returned, and its channel is gone.
Control ==
  /\ held # <<>> <=> phase = "sending"
  /\ phase \in {"none", "replaying"} => joined = 0 /\ cursor = 0 /\ ~dropped
  /\ phase = "none" => replayed = 0
  /\ joined <= cursor
  /\ dropped => channel = <<>>

ReplayedPart == SubSeq(snapshot, 1, replayed)

LivePart == SubSeq(sent, joined + 1, cursor)

\* Also after the handle is dropped, what was delivered was delivered in order.
InOrder ==
  \E rest \in Seq(Events) : Delivered \o rest = ReplayedPart \o LivePart

Distinct(s) == \A i, j \in DOMAIN s : s[i] = s[j] => i = j

\* No event is published twice.
Once == Distinct(published) /\ Distinct(sent) /\ Distinct(snapshot)

IInv == TypeOK /\ Control /\ ReplayThenLive /\ InOrder /\ Once

---------------------------------------------------------------------------
LEMMA InitIInv == Init => IInv
<1> SUFFICES ASSUME Init PROVE IInv
  OBVIOUS
<1>1. TypeOK /\ Control
  <2>1. <<>> \in Seq(Events) /\ Len(<<>>) = 0
    BY EmptySeq
  <2>b. deliverExisting \in BOOLEAN /\ dropped \in BOOLEAN
    BY DEF Init
  <2>2. TypeOK
    BY <2>1, <2>b, DryRunAssumption, Z3 DEF Init, TypeOK, DryRunAssumption
  <2>3. Control
    BY DEF Init, Control
  <2> QED
    BY <2>2, <2>3
<1>2. ReplayedPart = <<>> /\ LivePart = <<>>
  BY SubSeqEmpty DEF Init, ReplayedPart, LivePart
<1>3. Delivered = <<>> /\ held = <<>>
  BY Nothing DEF Init, Delivered
<1>4. ReplayThenLive /\ InOrder
  BY <1>2, <1>3, Nothing DEF ReplayThenLive, InOrder, ReplayedPart, LivePart
<1>5. Once
  BY DEF Init, Once, Distinct
<1> QED
  BY <1>1, <1>4, <1>5 DEF IInv

LEMMA DistinctAppend ==
  ASSUME NEW s \in Seq(Events), NEW e \in Events, Distinct(s), e \notin Range(s)
  PROVE  Distinct(Append(s, e))
<1>1. /\ Len(s) \in Nat /\ DOMAIN s = 1 .. Len(s)
      /\ DOMAIN Append(s, e) = 1 .. (Len(s) + 1)
      /\ \A i \in 1 .. Len(s) : Append(s, e)[i] = s[i]
      /\ Append(s, e)[Len(s) + 1] = e
  OBVIOUS
<1>2. \A i \in 1 .. Len(s) : s[i] # e
  BY <1>1 DEF Range
<1> QED
  BY <1>1, <1>2 DEF Distinct

LEMMA StepOnce == TypeOK /\ Once /\ [Next]_vars => Once'
<1> SUFFICES ASSUME TypeOK, Once, [Next]_vars
             PROVE  Once'
  OBVIOUS
<1>1. ASSUME NEW e \in Events, Push(e)
      PROVE  Once'
  BY <1>1, DistinctAppend DEF Push, subscription, Once, TypeOK
<1>2. ASSUME NEW e \in Events, Broadcast(e)
      PROVE  Once'
  BY <1>2, DistinctAppend DEF Broadcast, subscription, Once, TypeOK
<1>3. CASE Subscribe
  BY <1>3 DEF Subscribe, Once, Distinct
<1>4. CASE Work \/ Receive \/ DropHandle \/ UNCHANGED vars
  BY <1>4 DEF Work, Replay, Attach, Recv, RecvLagged, Forward, ForwardFails,
              Receive, DropHandle, vars, subscription, Once
<1> QED
  BY <1>1, <1>2, <1>3, <1>4 DEF Next

LEMMA StepTypeOK == TypeOK /\ Control /\ [Next]_vars => TypeOK' /\ Control'
<1> SUFFICES ASSUME TypeOK, Control, [Next]_vars
             PROVE  TypeOK' /\ Control'
  OBVIOUS
<1> USE DryRunAssumption DEF TypeOK, Control, DryRunAssumption, subscription
<1>1. ASSUME NEW e \in Events, Push(e)
      PROVE  TypeOK' /\ Control'
  BY <1>1, AppendProperties DEF Push
<1>2. ASSUME NEW e \in Events, Broadcast(e)
      PROVE  TypeOK' /\ Control'
  <2>1. sent' \in Seq(Events) /\ Len(sent') = Len(sent) + 1 /\ Len(sent) \in Nat
    <3>1. sent' = Append(sent, e) /\ sent \in Seq(Events)
      BY <1>2 DEF Broadcast
    <3>2. sent' \in Seq(Events) /\ Len(sent') = Len(sent) + 1
      BY <3>1, AppendProperties
    <3> QED
      BY <3>1, <3>2, LenProperties
  <2>2. UNCHANGED <<deliverExisting, published, phase, snapshot, replayed, joined, cursor,
                   held, channel, dropped, received>>
    BY <1>2 DEF Broadcast
  <2>3. joined' \in 0 .. Len(sent') /\ cursor' \in 0 .. Len(sent')
    BY <2>1, <2>2
  <2>4. TypeOK'
    BY <2>1, <2>2, <2>3
  <2> QED
    BY <2>2, <2>4
<1>3. CASE Subscribe
  <2>1. snapshot' \in Seq(Events) /\ Len(snapshot') \in Nat
    BY <1>3, EmptySeq, LenProperties DEF Subscribe
  <2> QED
    BY <1>3, <2>1 DEF Subscribe
<1>4. CASE Replay
  <2>1. snapshot[replayed + 1] \in Events
    BY <1>4, ElementOfSeq, LenProperties DEF Replay
  <2>2. /\ channel' \in Seq(Events) /\ Len(channel') = Len(channel) + 1
        /\ Len(channel) \in Nat /\ Len(snapshot) \in Nat
    BY <1>4, <2>1, AppendProperties, LenProperties DEF Replay
  <2> QED
    BY <1>4, <2>2 DEF Replay
<1>5. CASE Attach
  BY <1>5, LenProperties DEF Attach
<1>6. CASE Recv
  <2>1. sent[cursor + 1] \in Events /\ Len(sent) \in Nat
    BY <1>6, ElementOfSeq, LenProperties DEF Recv
  <2>2. <<sent[cursor + 1]>> \in Seq(Events) /\ Len(<<sent[cursor + 1]>>) = 1
    BY <2>1
  <2>3. <<sent[cursor + 1]>> # <<>>
    OBVIOUS
  <2> QED
    BY <1>6, <2>1, <2>2, <2>3 DEF Recv
<1>7. CASE RecvLagged
  BY <1>7 DEF RecvLagged
<1>8. CASE Forward
  <2>1. /\ channel \o held \in Seq(Events) /\ Len(channel \o held) <= Capacity
        /\ Len(channel) \in Nat
    BY <1>8, ConcatProperties, LenProperties DEF Forward
  <2> QED
    BY <1>8, <2>1, EmptySeq DEF Forward
<1>9. CASE ForwardFails
  BY <1>9, EmptySeq DEF ForwardFails
<1>10. CASE Receive
  <2>1. /\ Head(channel) \in Events /\ Tail(channel) \in Seq(Events)
        /\ Len(Tail(channel)) <= Capacity /\ Len(channel) \in Nat
    BY <1>10, HeadTailProperties, LenProperties DEF Receive
  <2>2. Append(received, Head(channel)) \in Seq(Events)
    BY <2>1, AppendProperties
  <2> QED
    BY <1>10, <2>1, <2>2 DEF Receive, HasHandle
<1>11. CASE DropHandle
  BY <1>11, EmptySeq DEF DropHandle, HasHandle
<1>12. CASE UNCHANGED vars
  BY <1>12 DEF vars
<1> QED
  BY <1>1, <1>2, <1>3, <1>4, <1>5, <1>6, <1>7, <1>8, <1>9, <1>10, <1>11, <1>12
     DEF Next, Work

---------------------------------------------------------------------------
(* What is delivered *)

LEMMA PartsTyped ==
  TypeOK => /\ ReplayedPart \in Seq(Events) /\ LivePart \in Seq(Events)
            /\ Delivered \in Seq(Events)
<1> SUFFICES ASSUME TypeOK
             PROVE  /\ ReplayedPart \in Seq(Events) /\ LivePart \in Seq(Events)
                    /\ Delivered \in Seq(Events)
  OBVIOUS
<1>1. ReplayedPart \in Seq(Events)
  BY PartOf DEF TypeOK, ReplayedPart
<1>2. joined + 1 \in Nat \ {0}
  BY LenProperties DEF TypeOK
<1>3. LivePart \in Seq(Events)
  BY <1>2, PartOf DEF TypeOK, LivePart
<1>4. Delivered \in Seq(Events)
  BY Joined DEF TypeOK, Delivered
<1> QED
  BY <1>1, <1>3, <1>4

LEMMA StepReplayThenLive == IInv /\ [Next]_vars => ReplayThenLive'
<1> SUFFICES ASSUME IInv, [Next]_vars, ~dropped'
             PROVE  (Delivered \o held)' = (ReplayedPart \o LivePart)'
  BY DEF ReplayThenLive, ReplayedPart, LivePart
<1>t. /\ TypeOK /\ Control
      /\ ReplayedPart \in Seq(Events) /\ LivePart \in Seq(Events)
      /\ Delivered \in Seq(Events)
  BY PartsTyped DEF IInv
<1>h. ~dropped => Delivered \o held = ReplayedPart \o LivePart
  BY DEF IInv, ReplayThenLive, ReplayedPart, LivePart
<1>n. Len(sent) \in Nat /\ Len(snapshot) \in Nat /\ joined + 1 \in Nat \ {0}
  BY <1>t, LenProperties DEF TypeOK
<1>1. ASSUME NEW e \in Events, Push(e)
      PROVE  (Delivered \o held)' = (ReplayedPart \o LivePart)'
  BY <1>1, <1>h DEF Push, subscription, Delivered, ReplayedPart, LivePart
<1>2. ASSUME NEW e \in Events, Broadcast(e)
      PROVE  (Delivered \o held)' = (ReplayedPart \o LivePart)'
  <2>1. SubSeq(Append(sent, e), joined + 1, cursor) = SubSeq(sent, joined + 1, cursor)
    BY <1>t, <1>n, PartOfAppend DEF TypeOK
  <2>2. LivePart' = LivePart
    BY <1>2, <2>1 DEF Broadcast, subscription, LivePart
  <2> QED
    BY <1>2, <1>h, <2>2 DEF Broadcast, subscription, Delivered, ReplayedPart
<1>3. CASE Subscribe
  <2>1. replayed = 0 /\ replayed' = 0
    BY <1>3, <1>t DEF Subscribe, Control
  <2>2. ReplayedPart' = <<>> /\ ReplayedPart = <<>>
    BY <2>1, SubSeqEmpty DEF ReplayedPart
  <2>3. LivePart' = LivePart
    BY <1>3 DEF Subscribe, LivePart
  <2> QED
    BY <1>3, <1>h, <2>2, <2>3 DEF Subscribe, Delivered
<1>4. CASE Replay
  <2> DEFINE x == snapshot[replayed + 1]
  <2>1. /\ held = <<>> /\ held' = <<>> /\ joined = 0 /\ cursor = 0 /\ ~dropped
        /\ UNCHANGED <<snapshot, sent, joined, cursor, received>>
        /\ channel' = Append(channel, x) /\ replayed' = replayed + 1
        /\ replayed < Len(snapshot) /\ replayed \in 0 .. Len(snapshot)
        /\ channel \in Seq(Events) /\ received \in Seq(Events) /\ snapshot \in Seq(Events)
    BY <1>4, <1>t DEF Replay, Control, TypeOK
  <2>2. LivePart = <<>> /\ LivePart' = <<>>
    BY <2>1, SubSeqEmpty DEF LivePart
  <2>3. SubSeq(snapshot, 1, replayed + 1) = SubSeq(snapshot, 1, replayed) \o <<x>>
        /\ x \in Events
    <3>1. 1 <= replayed + 1
      BY <1>n, <2>1
    <3> QED
      BY <2>1, <3>1, PartGrows
  <2>4. ReplayedPart' = ReplayedPart \o <<x>>
    BY <2>1, <2>3 DEF ReplayedPart
  <2> HIDE DEF x
  <2>5. <<x>> \in Seq(Events) /\ Append(channel, x) = channel \o <<x>>
    BY <2>1, <2>3, AppendIsConcat
  <2>6. Delivered' = Delivered \o <<x>>
    BY <2>1, <2>5, Regroup DEF Delivered
  <2>7. Delivered = ReplayedPart
    BY <1>t, <1>h, <2>1, <2>2, Nothing
  <2>8. Delivered' \in Seq(Events) /\ ReplayedPart' \in Seq(Events)
    BY <1>t, <2>4, <2>5, <2>6, Joined
  <2> QED
    BY <2>1, <2>2, <2>4, <2>6, <2>7, <2>8, Nothing
<1>5. CASE Attach
  <2>1. joined = 0 /\ cursor = 0 /\ joined' = Len(sent) /\ cursor' = Len(sent)
        /\ UNCHANGED <<sent, snapshot, replayed, held, channel, dropped, received>>
    BY <1>5, <1>t DEF Attach, Control
  <2>2. LivePart = <<>> /\ LivePart' = <<>>
    BY <1>n, <2>1, SubSeqEmpty DEF LivePart
  <2> QED
    BY <1>h, <2>1, <2>2 DEF Delivered, ReplayedPart
<1>6. CASE Recv
  <2> DEFINE x == sent[cursor + 1]
  <2>1. /\ held = <<>> /\ held' = <<x>> /\ cursor' = cursor + 1 /\ joined <= cursor
        /\ cursor < Len(sent) /\ cursor \in 0 .. Len(sent) /\ sent \in Seq(Events)
        /\ UNCHANGED <<snapshot, replayed, sent, joined, channel, dropped, received>>
    BY <1>6, <1>t DEF Recv, Control, TypeOK
  <2>2. SubSeq(sent, joined + 1, cursor + 1) = SubSeq(sent, joined + 1, cursor) \o <<x>>
        /\ x \in Events
    <3>1. joined + 1 <= cursor + 1
      BY <1>n, <1>t, <2>1 DEF TypeOK
    <3> QED
      BY <1>n, <2>1, <3>1, PartGrows
  <2>3. LivePart' = LivePart \o <<x>>
    BY <2>1, <2>2 DEF LivePart
  <2> HIDE DEF x
  <2>4. <<x>> \in Seq(Events)
    BY <2>2
  <2>5. Delivered = ReplayedPart \o LivePart
    BY <1>t, <1>h, <2>1, Nothing
  <2>6. Delivered' = Delivered /\ ReplayedPart' = ReplayedPart
    BY <2>1 DEF Delivered, ReplayedPart
  <2> QED
    BY <1>t, <2>1, <2>3, <2>4, <2>5, <2>6, Regroup
<1>7. CASE RecvLagged
  BY <1>7, <1>h DEF RecvLagged, Delivered, ReplayedPart, LivePart
<1>8. CASE Forward
  <2>1. /\ channel' = channel \o held /\ held' = <<>>
        /\ UNCHANGED <<sent, snapshot, replayed, joined, cursor, dropped, received>>
        /\ channel \in Seq(Events) /\ held \in Seq(Events) /\ received \in Seq(Events)
    BY <1>8, <1>t DEF Forward, TypeOK
  <2>2. Delivered' = Delivered \o held
    BY <2>1, Regroup DEF Delivered
  <2>3. Delivered' \in Seq(Events)
    BY <1>t, <2>1, <2>2, Joined
  <2>4. ReplayedPart' = ReplayedPart /\ LivePart' = LivePart
    BY <2>1 DEF ReplayedPart, LivePart
  <2> QED
    BY <1>h, <2>1, <2>2, <2>3, <2>4, Nothing
<1>9. CASE ForwardFails \/ DropHandle
  BY <1>9 DEF ForwardFails, DropHandle
<1>10. CASE Receive
  <2>1. /\ received \in Seq(Events) /\ channel \in Seq(Events) /\ channel # <<>>
        /\ received' = Append(received, Head(channel)) /\ channel' = Tail(channel)
        /\ UNCHANGED <<sent, subscription, dropped>>
    BY <1>10, <1>t DEF Receive, TypeOK
  <2>2. Delivered' = Delivered
    BY <2>1, MoveHead DEF Delivered
  <2> QED
    BY <1>h, <2>1, <2>2 DEF subscription, ReplayedPart, LivePart
<1>11. CASE UNCHANGED vars
  BY <1>11, <1>h DEF vars, Delivered, ReplayedPart, LivePart
<1> QED
  BY <1>1, <1>2, <1>3, <1>4, <1>5, <1>6, <1>7, <1>8, <1>9, <1>10, <1>11 DEF Next, Work

LEMMA StepInOrder == IInv /\ [Next]_vars => InOrder'
<1> SUFFICES ASSUME IInv, [Next]_vars
             PROVE  InOrder'
  OBVIOUS
<1>t. /\ TypeOK /\ Control /\ TypeOK'
      /\ ReplayedPart \in Seq(Events) /\ LivePart \in Seq(Events)
      /\ Delivered \in Seq(Events)
  BY PartsTyped, StepTypeOK DEF IInv
<1>n. Len(sent) \in Nat /\ joined + 1 \in Nat \ {0}
  <2>1. Len(sent) \in Nat /\ joined \in 0 .. Len(sent)
    BY <1>t, LenProperties DEF TypeOK
  <2> QED
    BY <2>1
<1>1. CASE ~dropped'
  \* the rest is what the forwarder holds
  <2>1. ReplayThenLive' /\ held' \in Seq(Events)
    BY <1>t, StepReplayThenLive DEF TypeOK
  <2>2. (Delivered \o held)' = (ReplayedPart \o LivePart)'
    BY <1>1, <2>1 DEF ReplayThenLive, ReplayedPart, LivePart
  <2> QED
    BY <2>1, <2>2 DEF InOrder
<1>2. CASE dropped' /\ ~dropped
  \* the channel, and what the forwarder holds, will not be read
  <2>1. DropHandle
    BY <1>2 DEF Next, Work, vars, Push, Broadcast, Subscribe, Replay, Attach, Recv,
                RecvLagged, Forward, ForwardFails, Receive
  <2>2. /\ channel' = <<>> /\ UNCHANGED <<sent, subscription, received>>
        /\ received \in Seq(Events) /\ channel \in Seq(Events) /\ held \in Seq(Events)
    BY <1>t, <2>1 DEF DropHandle, TypeOK
  <2>3. Delivered' = received
    BY <2>2, Nothing DEF Delivered
  <2>4. (received \o channel) \o held = ReplayedPart \o LivePart
    BY <1>2 DEF IInv, ReplayThenLive, Delivered, ReplayedPart, LivePart
  <2>5. received \o (channel \o held) = ReplayedPart \o LivePart
    BY <2>2, <2>4, Regroup
  <2>6. channel \o held \in Seq(Events)
    BY <2>2, Joined
  <2>7. ReplayedPart' = ReplayedPart /\ LivePart' = LivePart
    BY <2>2 DEF subscription, ReplayedPart, LivePart
  <2> QED
    BY <2>3, <2>5, <2>6, <2>7 DEF InOrder
<1>3. CASE dropped' /\ dropped
  <2>1. PICK rest \in Seq(Events) : Delivered \o rest = ReplayedPart \o LivePart
    BY DEF IInv, InOrder
  <2>2. Delivered' = Delivered
    BY <1>3, <1>t DEF Next, Work, vars, subscription, Push, Broadcast, Subscribe, Replay,
         Attach, Recv, RecvLagged, Forward, ForwardFails, Receive, DropHandle, HasHandle,
         Control, Delivered
  <2>3. ReplayedPart' = ReplayedPart
    BY <1>3, <1>t DEF Next, Work, vars, subscription, Push, Broadcast, Subscribe, Replay,
         Attach, Recv, RecvLagged, Forward, ForwardFails, Receive, DropHandle, HasHandle,
         Control, ReplayedPart
  <2>4. CASE Recv
    <3> DEFINE x == sent[cursor + 1]
    <3>1. /\ cursor' = cursor + 1 /\ joined <= cursor
          /\ cursor < Len(sent) /\ cursor \in 0 .. Len(sent) /\ sent \in Seq(Events)
          /\ UNCHANGED <<sent, joined>>
      BY <2>4, <1>t DEF Recv, Control, TypeOK
    <3>2. SubSeq(sent, joined + 1, cursor + 1) = SubSeq(sent, joined + 1, cursor) \o <<x>>
          /\ x \in Events
      <4>1. joined + 1 <= cursor + 1
        BY <1>n, <1>t, <3>1 DEF TypeOK
      <4> QED
        BY <1>n, <3>1, <4>1, PartGrows
    <3>3. LivePart' = LivePart \o <<x>>
      BY <3>1, <3>2 DEF LivePart
    <3> HIDE DEF x
    <3>4. <<x>> \in Seq(Events)
      BY <3>2
    <3>5. Delivered \o (rest \o <<x>>) = ReplayedPart \o (LivePart \o <<x>>)
      <4>1. (Delivered \o rest) \o <<x>> = Delivered \o (rest \o <<x>>)
        BY <1>t, <3>4, Regroup
      <4>2. (ReplayedPart \o LivePart) \o <<x>> = ReplayedPart \o (LivePart \o <<x>>)
        BY <1>t, <3>4, Regroup
      <4> QED
        BY <2>1, <4>1, <4>2
    <3>6. rest \o <<x>> \in Seq(Events)
      BY <2>1, <3>4, Joined
    <3> QED
      BY <2>2, <2>3, <3>3, <3>5, <3>6 DEF InOrder
  <2>5. CASE ~Recv
    <3>1. CASE \E e \in Events : Broadcast(e)
      <4>1. PICK e \in Events : Broadcast(e)
        BY <3>1
      <4>2. SubSeq(Append(sent, e), joined + 1, cursor) = SubSeq(sent, joined + 1, cursor)
        BY <1>t, <1>n, PartOfAppend DEF TypeOK
      <4>3. LivePart' = LivePart
        BY <4>1, <4>2 DEF Broadcast, subscription, LivePart
      <4> QED
        BY <2>1, <2>2, <2>3, <4>3 DEF InOrder
    <3>2. CASE ~\E e \in Events : Broadcast(e)
      <4>1. LivePart' = LivePart
        BY <1>3, <1>t, <2>5, <3>2
           DEF Next, Work, vars, subscription, Push, Subscribe, Replay, Attach, RecvLagged,
               Forward, ForwardFails, Receive, DropHandle, HasHandle, Control, LivePart
      <4> QED
        BY <2>1, <2>2, <2>3, <4>1 DEF InOrder
    <3> QED
      BY <3>1, <3>2
  <2> QED
    BY <2>4, <2>5
<1> QED
  BY <1>1, <1>2, <1>3

LEMMA StepIInv == IInv /\ [Next]_vars => IInv'
BY StepTypeOK, StepReplayThenLive, StepInOrder, StepOnce DEF IInv

---------------------------------------------------------------------------
(* The theorems *)

\* The state of the subscription keeps its type; the handle's channel never
\* holds more than its capacity.
THEOREM TypeCorrect == Spec => []TypeOK
<1>1. IInv => TypeOK
  BY DEF IInv
<1> QED
  BY <1>1, InitIInv, StepIInv, PTL DEF Spec

\* Whatever the order of publishes, replay, forwarding and reading, what a
\* handle gets is the replayed part of the snapshot followed, without a gap,
\* by what was broadcast since the forwarder attached.
THEOREM ReplayComesFirst == Spec => []ReplayThenLive
<1>1. IInv => ReplayThenLive
  BY DEF IInv
<1> QED
  BY <1>1, InitIInv, StepIInv, PTL DEF Spec

\* Nothing is delivered twice but an event that was in the list when subscribe
\* copied it and in the broadcast after the forwarder attached.
THEOREM OverlapOnlyRepeats == Spec => []SeenTwiceOnlyInOverlap
<1>1. IInv => SeenTwiceOnlyInOverlap
  <2> SUFFICES ASSUME IInv, NEW i \in DOMAIN Delivered, NEW j \in DOMAIN Delivered,
                      i < j, Delivered[i] = Delivered[j]
               PROVE  /\ Delivered[i] \in Range(snapshot)
                      /\ Delivered[i] \in Range(SubSeq(sent, joined + 1, Len(sent)))
    BY DEF SeenTwiceOnlyInOverlap
  <2> DEFINE R == ReplayedPart
             L == LivePart
             D == Delivered
  <2>1. /\ TypeOK /\ Control /\ R \in Seq(Events) /\ L \in Seq(Events) /\ D \in Seq(Events)
    BY PartsTyped DEF IInv
  <2>2. PICK rest \in Seq(Events) : D \o rest = R \o L
    BY DEF IInv, InOrder
  <2>3. /\ Len(R) = replayed /\ replayed \in 0 .. Len(snapshot)
        /\ replayed \in Nat /\ Len(snapshot) \in Nat
        /\ \A k \in 1 .. replayed : R[k] = snapshot[k]
    <3>1. /\ snapshot \in Seq(Events) /\ replayed \in 0 .. Len(snapshot)
          /\ replayed \in Nat /\ Len(snapshot) \in Nat /\ 1 \in Nat \ {0}
      BY <2>1, LenProperties DEF TypeOK
    <3>2. /\ Len(R) = IF 1 <= replayed THEN replayed - 1 + 1 ELSE 0
          /\ \A k \in 1 .. replayed - 1 + 1 : R[k] = snapshot[1 + k - 1]
      BY <3>1, PartOf DEF ReplayedPart
    <3> QED
      BY <3>1, <3>2
  <2>4. /\ Len(L) = cursor - joined
        /\ joined \in Nat /\ cursor \in joined .. Len(sent) /\ Len(sent) \in Nat
        /\ \A k \in 1 .. (cursor - joined) : L[k] = sent[joined + k]
    <3>1. /\ joined + 1 \in Nat \ {0} /\ cursor \in 0 .. Len(sent) /\ sent \in Seq(Events)
          /\ joined \in Nat /\ cursor \in joined .. Len(sent) /\ Len(sent) \in Nat
      BY <2>1, LenProperties DEF TypeOK, Control
    <3>2. /\ Len(L) = IF joined + 1 <= cursor THEN cursor - (joined + 1) + 1 ELSE 0
          /\ \A k \in 1 .. cursor - (joined + 1) + 1 : L[k] = sent[(joined + 1) + k - 1]
      BY <3>1, PartOf DEF LivePart
    <3> QED
      BY <3>1, <3>2
  <2>5. i \in 1 .. Len(D) /\ j \in 1 .. Len(D) /\ Len(D) \in Nat /\ Len(rest) \in Nat
    BY <2>1, <2>2, LenProperties
  <2> HIDE DEF R, L, D
  <2>6. /\ Len(D) + Len(rest) = Len(R) + Len(L)
        /\ \A k \in 1 .. Len(D) : D[k] = IF k <= Len(R) THEN R[k] ELSE L[k - Len(R)]
    <3>1. /\ Len(D \o rest) = Len(D) + Len(rest)
          /\ \A k \in 1 .. Len(D) + Len(rest) :
               (D \o rest)[k] = IF k <= Len(D) THEN D[k] ELSE rest[k - Len(D)]
      BY <2>1, <2>2, ConcatProperties
    <3>2. /\ Len(R \o L) = Len(R) + Len(L)
          /\ \A k \in 1 .. Len(R) + Len(L) :
               (R \o L)[k] = IF k <= Len(R) THEN R[k] ELSE L[k - Len(R)]
      BY <2>1, ConcatProperties
    <3> QED
      BY <2>2, <2>5, <3>1, <3>2
  <2>7. /\ DOMAIN snapshot = 1 .. Len(snapshot) /\ DOMAIN sent = 1 .. Len(sent)
        /\ Len(snapshot) \in Nat
        /\ \A k, l \in 1 .. Len(snapshot) : snapshot[k] = snapshot[l] => k = l
        /\ \A k, l \in 1 .. Len(sent) : sent[k] = sent[l] => k = l
    <3>1. snapshot \in Seq(Events) /\ sent \in Seq(Events)
      BY <2>1 DEF TypeOK
    <3>2. /\ DOMAIN snapshot = 1 .. Len(snapshot) /\ DOMAIN sent = 1 .. Len(sent)
          /\ Len(snapshot) \in Nat
      BY <3>1, LenProperties
    <3> QED
      BY <3>2 DEF IInv, Once, Distinct
  <2>8. D[i] = D[j] /\ i < j
    BY DEF D
  <2>9. \A k \in 1 .. Len(D) : k <= replayed => D[k] = snapshot[k] /\ k \in 1 .. Len(snapshot)
    <3> TAKE k \in 1 .. Len(D)
    <3> HAVE k <= replayed
    <3>1. k \in 1 .. replayed /\ k \in 1 .. Len(snapshot)
      BY <2>3, <2>5
    <3>2. D[k] = R[k]
      BY <2>3, <2>6
    <3> QED
      BY <2>3, <3>1, <3>2
  <2>10. \A k \in 1 .. Len(D) : replayed < k =>
           D[k] = sent[joined + (k - replayed)] /\ k - replayed \in 1 .. (cursor - joined)
    <3> TAKE k \in 1 .. Len(D)
    <3> HAVE replayed < k
    <3>1. k \in Nat /\ k <= Len(D) /\ Len(D) <= Len(R) + Len(L)
      <4>1. Len(R) + Len(L) \in Nat
        BY <2>3, <2>4
      <4> QED
        BY <2>5, <2>6, <4>1
    <3>2. k - replayed \in 1 .. (cursor - joined)
      BY <2>3, <2>4, <3>1
    <3>3. D[k] = L[k - replayed]
      BY <2>3, <2>6, <3>1
    <3>4. L[k - replayed] = sent[joined + (k - replayed)]
      BY <2>4, <3>2
    <3> QED
      BY <3>2, <3>3, <3>4
  <2>11. i <= replayed
    \* two places of the live part hold two events
    <3> SUFFICES ASSUME replayed < i
                 PROVE  FALSE
      BY <2>3, <2>5
    <3>1. /\ D[i] = sent[joined + (i - replayed)] /\ i - replayed \in 1 .. (cursor - joined)
          /\ D[j] = sent[joined + (j - replayed)] /\ j - replayed \in 1 .. (cursor - joined)
      BY <2>3, <2>5, <2>8, <2>10
    <3>2. joined + (i - replayed) \in 1 .. Len(sent) /\ joined + (j - replayed) \in 1 .. Len(sent)
      BY <2>4, <3>1
    <3>3. joined + (i - replayed) = joined + (j - replayed)
      BY <2>7, <2>8, <3>1, <3>2
    <3> QED
      BY <2>3, <2>4, <2>5, <2>8, <3>3
  <2>12. replayed < j
    \* two places of the snapshot hold two events
    <3> SUFFICES ASSUME j <= replayed
                 PROVE  FALSE
      BY <2>3, <2>5
    <3>1. /\ D[i] = snapshot[i] /\ i \in 1 .. Len(snapshot)
          /\ D[j] = snapshot[j] /\ j \in 1 .. Len(snapshot)
      BY <2>5, <2>9, <2>11
    <3>2. i = j
      BY <2>7, <2>8, <3>1
    <3> QED
      BY <2>5, <2>8, <3>2
  <2>13. D[i] \in Range(snapshot)
    <3>1. D[i] = snapshot[i] /\ i \in DOMAIN snapshot
      BY <2>5, <2>7, <2>9, <2>11
    <3> QED
      BY <3>1 DEF Range
  <2>14. D[i] \in Range(SubSeq(sent, joined + 1, Len(sent)))
    <3> DEFINE k == j - replayed
               t == SubSeq(sent, joined + 1, Len(sent))
    <3>1. D[i] = sent[joined + k] /\ k \in 1 .. (cursor - joined)
      BY <2>5, <2>8, <2>10, <2>12
    <3>2. sent \in Seq(Events) /\ joined + 1 \in Nat \ {0} /\ Len(sent) \in 0 .. Len(sent)
      BY <2>1, <2>4 DEF TypeOK
    <3>3. /\ t \in Seq(Events)
          /\ Len(t) = IF joined + 1 <= Len(sent) THEN Len(sent) - (joined + 1) + 1 ELSE 0
          /\ \A l \in 1 .. Len(sent) - (joined + 1) + 1 : t[l] = sent[(joined + 1) + l - 1]
      BY <3>2, PartOf
    <3> HIDE DEF t, k
    <3>4. DOMAIN t = 1 .. Len(t)
      BY <3>3, LenProperties
    <3>5. k \in DOMAIN t /\ t[k] = sent[joined + k]
      BY <2>4, <3>1, <3>3, <3>4
    <3>6. D[i] \in Range(t)
      BY <3>1, <3>5 DEF Range
    <3> QED
      BY <3>6 DEF t
  <2> QED
    BY <2>13, <2>14 DEF D
<1> QED
  BY <1>1, InitIInv, StepIInv, PTL DEF Spec

=========================================================================
