-------------------- MODULE RunnerSubscriptionProofs --------------------
(***************************************************************************)
(* Theorems about RunnerSubscription for every set of events, every        *)
(* capacity of the channel and any number of redeliveries.                 *)
(***************************************************************************)
EXTENDS RunnerSubscription, SequenceTheorems, TLAPS

---------------------------------------------------------------------------
(* The inductive invariant *)

\* The task exists once there is a handle, holds an event only to send it, and
\* holds or acknowledges only what was handed out; a handle ends last.
Control ==
  /\ poller = "absent" <=> handle = "none"
  /\ held # <<>> <=> poller = "sending"
  /\ poller \in {"sending", "acking"} => handed # <<>>
  /\ handle = "ended" => poller = "stopped"
  /\ handle = "none" => handed = <<>>

\* What was handed out starts with what was delivered; the rest is what the
\* task holds while it runs for an open handle.
HandedRest(rest) ==
  /\ handed = Delivered \o rest
  /\ handle = "open" /\ poller # "stopped" => rest = held

HandedIsDelivered == \E rest \in Seq(Events) : HandedRest(rest)

IInv == TypeOK /\ Control /\ HandedIsDelivered /\ AckedIsDelivered

---------------------------------------------------------------------------
(* Sequences *)

\* Moving the head of t to the end of s changes nothing of s \o t.
LEMMA MoveHead ==
  ASSUME NEW S, NEW s \in Seq(S), NEW t \in Seq(S), t # <<>>
  PROVE  Append(s, Head(t)) \o Tail(t) = s \o t
<1>1. Head(t) \in S /\ Tail(t) \in Seq(S)
  BY HeadTailProperties
<1>2. Append(s, Head(t)) = s \o <<Head(t)>>
  BY <1>1, AppendIsConcat
<1>3. <<Head(t)>> \o Tail(t) = t
  BY <1>1
<1>4. <<Head(t)>> \in Seq(S)
  BY <1>1
<1> QED
  BY <1>1, <1>2, <1>3, <1>4, ConcatAssociative

\* The first part of a concatenation is a prefix of it.
LEMMA PrefixOfConcat ==
  ASSUME NEW S, NEW s \in Seq(S), NEW t \in Seq(S)
  PROVE  IsPrefix(s, s \o t)
<1>1. Len(s) <= Len(s \o t)
  BY ConcatProperties, LenProperties
<1>2. SubSeq(s, 1, Len(s)) = SubSeq(s \o t, 1, Len(s))
  <2>1. CASE s = <<>>
    BY <2>1, SubSeqEmpty, EmptySeq
  <2>2. CASE s # <<>>
    <3>1. Len(s) \in Nat \ {0}
      BY <2>2, EmptySeq
    <3> QED
      BY <3>1, SubSeqOfConcat1
  <2> QED
    BY <2>1, <2>2
<1> QED
  BY <1>1, <1>2 DEF IsPrefix

\* The last element of a sequence is in its range.
LEMMA LastInRange ==
  ASSUME NEW S, NEW s \in Seq(S), s # <<>>
  PROVE  Last(s) \in Range(s) /\ Last(s) \in S
<1>1. Len(s) \in 1 .. Len(s) /\ DOMAIN s = 1 .. Len(s)
  BY EmptySeq, LenProperties
<1> QED
  BY <1>1, LenProperties DEF Last, Range

\* Instances of library facts for events.
LEMMA EmptyConcat ==
  \A s, t \in Seq(Events) : s \o t = <<>> => t = <<>>
BY ConcatEqualIffEmpty

LEMMA Regroup ==
  \A s, t, u \in Seq(Events) : (s \o t) \o u = s \o (t \o u)
BY ConcatAssociative

LEMMA WellFormed == Seq(Events \ Malformed) \subseteq Seq(Events)
BY SeqMonotonic

LEMMA AppendToConcat ==
  ASSUME NEW s \in Seq(Events), NEW t \in Seq(Events), NEW e \in Events
  PROVE  Append(s \o t, e) = s \o Append(t, e)
<1>1. <<e>> \in Seq(Events) /\ s \o t \in Seq(Events)
  BY ConcatProperties
<1>2. Append(s \o t, e) = (s \o t) \o <<e>> /\ Append(t, e) = t \o <<e>>
  BY <1>1, AppendIsConcat
<1>3. (s \o t) \o <<e>> = s \o (t \o <<e>>)
  BY <1>1, Regroup, Zenon
<1> QED
  BY <1>2, <1>3

\* What follows what was delivered follows the channel.
LEMMA AfterDelivered ==
  ASSUME TypeOK, NEW s \in Seq(Events)
  PROVE  Delivered \o s = received \o (channel \o s)
<1>1. received \in Seq(Events) /\ channel \in Seq(Events)
  BY WellFormed DEF TypeOK
<1>2. (received \o channel) \o s = received \o (channel \o s)
  BY <1>1, Regroup, Zenon
<1> QED
  BY <1>2 DEF Delivered

---------------------------------------------------------------------------
(* Types and control *)

LEMMA InitIInv == Init => IInv
<1> SUFFICES ASSUME Init PROVE IInv
  OBVIOUS
<1>1. TypeOK
  BY SubscriptionAssumption, EmptySeq
     DEF Init, TypeOK, Pollers, SubscriptionAssumption
<1>2. Control
  BY DEF Init, Control
<1>3. HandedRest(<<>>)
  BY DEF Init, HandedRest, Delivered
<1>4. AckedIsDelivered
  BY DEF Init, AckedIsDelivered
<1> QED
  BY <1>1, <1>2, <1>3, <1>4, EmptySeq DEF IInv, HandedIsDelivered

LEMMA StepTypeOK == TypeOK /\ Control /\ [Next]_vars => TypeOK'
<1> SUFFICES ASSUME TypeOK, Control, [Next]_vars
             PROVE  TypeOK'
  OBVIOUS
<1> USE SubscriptionAssumption
    DEF TypeOK, Pollers, Control, SubscriptionAssumption, broker
<1>1. ASSUME NEW e \in Events, Publish(e)
      PROVE  TypeOK'
  BY <1>1, AppendProperties DEF Publish
<1>2. ASSUME NEW e \in Events, Redeliver(e)
      PROVE  TypeOK'
  BY <1>2, AppendProperties DEF Redeliver
<1>3. CASE Subscribe
  BY <1>3 DEF Subscribe
<1>4. CASE NextEvent
  <2>1. Head(pending) \in Events /\ Tail(pending) \in Seq(Events)
    BY <1>4, HeadTailProperties DEF NextEvent
  <2>2. handed' \in Seq(Events)
    BY <1>4, <2>1, AppendProperties DEF NextEvent
  <2>3. held' \in Seq(Events \ Malformed) /\ Len(held') <= 1
    <3>1. CASE Head(pending) \in Malformed
      BY <1>4, <3>1 DEF NextEvent
    <3>2. CASE Head(pending) \notin Malformed
      <4>1. held' = <<Head(pending)>> /\ Head(pending) \in Events \ Malformed
        BY <1>4, <2>1, <3>2 DEF NextEvent
      <4>2. <<Head(pending)>> \in Seq(Events \ Malformed)
            /\ Len(<<Head(pending)>>) = 1
        BY <4>1
      <4> QED
        BY <4>1, <4>2
    <3> QED
      BY <3>1, <3>2
  <2> QED
    BY <1>4, <2>1, <2>2, <2>3 DEF NextEvent
<1>5. CASE NextTimesOut
  BY <1>5 DEF NextTimesOut
<1>6. CASE Resume
  BY <1>6 DEF Resume
<1>7. CASE NextFails
  BY <1>7 DEF NextFails
<1>8. CASE Send
  <2>1. channel' \in Seq(Events \ Malformed) /\ Len(channel') <= Capacity
    BY <1>8, ConcatProperties, LenProperties DEF Send
  <2> QED
    BY <1>8, <2>1, EmptySeq DEF Send
<1>9. CASE SendFails
  BY <1>9, EmptySeq DEF SendFails
<1>10. CASE AckEvent
  <2>1. Last(handed) \in Events
    BY <1>10, LastInRange DEF AckEvent
  <2> QED
    BY <1>10, <2>1 DEF AckEvent
<1>11. CASE Receive
  <2>1. Head(channel) \in Events \ Malformed
        /\ Tail(channel) \in Seq(Events \ Malformed)
        /\ Len(Tail(channel)) = Len(channel) - 1
    BY <1>11, HeadTailProperties DEF Receive
  <2>2. received' \in Seq(Events \ Malformed)
    BY <1>11, <2>1, AppendProperties DEF Receive
  <2>3. Len(channel') <= Capacity
    BY <1>11, <2>1, LenProperties DEF Receive
  <2> QED
    BY <1>11, <2>1, <2>2, <2>3 DEF Receive
<1>12. CASE ReceiveEnd
  BY <1>12 DEF ReceiveEnd
<1>13. CASE DropHandle
  BY <1>13, EmptySeq DEF DropHandle
<1>14. CASE UNCHANGED vars
  BY <1>14 DEF vars
<1>15. QED
  BY <1>1, <1>2, <1>3, <1>4, <1>5, <1>6, <1>7, <1>8, <1>9, <1>10, <1>11,
     <1>12, <1>13, <1>14 DEF Next, Poll, Read

LEMMA StepControl == TypeOK /\ Control /\ [Next]_vars => Control'
<1> SUFFICES ASSUME TypeOK, Control, [Next]_vars
             PROVE  Control'
  OBVIOUS
<1> USE DEF Control, broker
<1>1. ASSUME NEW e \in Events, Publish(e)
      PROVE  Control'
  BY <1>1 DEF Publish
<1>2. ASSUME NEW e \in Events, Redeliver(e)
      PROVE  Control'
  BY <1>2 DEF Redeliver
<1>3. CASE Subscribe
  BY <1>3 DEF Subscribe
<1>4. CASE NextEvent
  <2>1. Head(pending) \in Events
    BY <1>4, HeadTailProperties DEF NextEvent, TypeOK
  <2>2. handed' # <<>>
    BY <1>4, <2>1, AppendProperties DEF NextEvent, TypeOK
  <2>3. poller = "polling" /\ held = <<>> /\ handle # "none" /\ handle # "ended"
    BY <1>4 DEF NextEvent
  <2>4. handle' = handle
    BY <1>4 DEF NextEvent
  <2>5. CASE Head(pending) \in Malformed
    <3>1. poller' = "stopped" /\ held' = held
      BY <1>4, <2>5 DEF NextEvent
    <3> QED
      BY <3>1, <2>2, <2>3, <2>4
  <2>6. CASE Head(pending) \notin Malformed
    <3>1. poller' = "sending" /\ held' = <<Head(pending)>>
      BY <1>4, <2>6 DEF NextEvent
    <3>2. held' # <<>>
      BY <3>1
    <3> QED
      BY <3>1, <3>2, <2>2, <2>3, <2>4
  <2> QED
    BY <2>5, <2>6
<1>5. CASE NextTimesOut
  BY <1>5 DEF NextTimesOut
<1>6. CASE Resume
  BY <1>6 DEF Resume
<1>7. CASE NextFails
  BY <1>7 DEF NextFails
<1>8. CASE Send
  <2>1. handed # <<>>
    BY <1>8 DEF Send
  <2> QED
    BY <1>8, <2>1 DEF Send
<1>9. CASE SendFails
  BY <1>9 DEF SendFails
<1>10. CASE AckEvent
  BY <1>10 DEF AckEvent
<1>11. CASE Receive
  BY <1>11 DEF Receive
<1>12. CASE ReceiveEnd
  BY <1>12 DEF ReceiveEnd
<1>13. CASE DropHandle
  BY <1>13 DEF DropHandle
<1>14. CASE UNCHANGED vars
  BY <1>14 DEF vars
<1>15. QED
  BY <1>1, <1>2, <1>3, <1>4, <1>5, <1>6, <1>7, <1>8, <1>9, <1>10, <1>11,
     <1>12, <1>13, <1>14 DEF Next, Poll, Read

---------------------------------------------------------------------------
(* What was handed out and what was delivered *)

\* A step that leaves these alone keeps the relation between them.
LEMMA Unmoved ==
  ASSUME HandedIsDelivered, UNCHANGED <<handed, received, channel>>,
         handle' = "open" /\ poller' # "stopped" =>
           /\ handle = "open" /\ poller # "stopped"
           /\ UNCHANGED held
  PROVE  HandedIsDelivered'
<1>1. PICK rest \in Seq(Events) : HandedRest(rest)
  BY DEF HandedIsDelivered
<1>2. HandedRest(rest)'
  BY <1>1 DEF HandedRest, Delivered
<1> QED
  BY <1>2 DEF HandedIsDelivered

LEMMA StepHanded ==
  TypeOK /\ Control /\ HandedIsDelivered /\ [Next]_vars => HandedIsDelivered'
<1> SUFFICES ASSUME TypeOK, Control, HandedIsDelivered, [Next]_vars
             PROVE  HandedIsDelivered'
  OBVIOUS
<1> PICK rest \in Seq(Events) : HandedRest(rest)
  BY DEF HandedIsDelivered
<1> DEFINE Moving == NextEvent \/ Send \/ Receive \/ DropHandle \/ Subscribe
<1>0. /\ received \in Seq(Events) /\ channel \in Seq(Events)
      /\ held \in Seq(Events) /\ Delivered \in Seq(Events)
  <2>1. /\ received \in Seq(Events) /\ channel \in Seq(Events)
        /\ held \in Seq(Events)
    BY WellFormed DEF TypeOK
  <2> QED
    BY <2>1, ConcatProperties DEF Delivered
<1>1. CASE Subscribe
  <2>1. held = <<>> /\ Delivered' = Delivered
    BY <1>1 DEF Subscribe, Control, Delivered
  <2>2. handed = <<>>
    BY <1>1 DEF Subscribe, Control
  <2>3. rest = <<>>
    <3>1. Delivered \o rest = <<>> /\ Delivered \in Seq(Events)
      BY <1>0, <2>2 DEF HandedRest
    <3> QED
      BY <3>1, EmptyConcat
  <2>4. HandedRest(rest)'
    BY <1>1, <2>1, <2>3 DEF Subscribe, HandedRest
  <2> QED
    BY <2>4 DEF HandedIsDelivered
<1>2. CASE NextEvent
  <2> DEFINE e == Head(pending)
  <2>1. e \in Events
    BY <1>2, HeadTailProperties DEF NextEvent, TypeOK
  <2>2. Append(rest, e) \in Seq(Events) /\ <<e>> \in Seq(Events)
    BY <2>1, AppendProperties
  <2>3. handed' = Delivered \o Append(rest, e)
    <3>1. handed' = Append(Delivered \o rest, e)
      BY <1>2 DEF NextEvent, HandedRest
    <3>2. Append(Delivered \o rest, e) = Delivered \o Append(rest, e)
      BY <1>0, <2>1, AppendToConcat, Zenon
    <3> QED
      BY <3>1, <3>2
  <2>4. handle = "open" /\ poller' # "stopped" => held' = Append(rest, e)
    <3> SUFFICES ASSUME handle = "open", poller' # "stopped"
                 PROVE  held' = Append(rest, e)
      OBVIOUS
    <3>1. held = <<>> /\ rest = held /\ held' = <<e>>
      BY <1>2 DEF NextEvent, Control, HandedRest
    <3>2. Append(<<>>, e) = <<>> \o <<e>> /\ <<>> \o <<e>> = <<e>>
      BY <2>1, <2>2, AppendIsConcat, ConcatEmptySeq, EmptySeq
    <3> QED
      BY <3>1, <3>2
  <2>5. Delivered' = Delivered /\ handle' = handle
    BY <1>2 DEF NextEvent, Delivered
  <2>6. PICK longer \in Seq(Events) : longer = Append(rest, e)
    BY <2>2
  <2>7. HandedRest(longer)'
    BY <2>3, <2>4, <2>5, <2>6 DEF HandedRest
  <2> QED
    BY <2>7 DEF HandedIsDelivered
<1>3. CASE Send
  <2>1. rest = held
    BY <1>3 DEF Send, HandedRest
  <2>2. Delivered' = Delivered \o held
    <3>1. Delivered \o held = received \o (channel \o held)
      BY <1>0, AfterDelivered, Zenon
    <3> QED
      BY <1>3, <3>1 DEF Send, Delivered
  <2>3. handed' = Delivered' \o <<>>
    <3>1. Delivered \o held \in Seq(Events)
      BY <1>0, ConcatProperties
    <3> QED
      BY <1>3, <2>1, <2>2, <3>1, ConcatEmptySeq DEF Send, HandedRest
  <2>4. HandedRest(<<>>)'
    BY <1>3, <2>3 DEF Send, HandedRest
  <2> QED
    BY <2>4, EmptySeq DEF HandedIsDelivered
<1>4. CASE Receive
  <2>1. Delivered' = Delivered
    BY <1>0, <1>4, MoveHead DEF Receive, Delivered
  <2>2. HandedRest(rest)'
    BY <1>4, <2>1 DEF Receive, HandedRest
  <2> QED
    BY <2>2 DEF HandedIsDelivered
<1>5. CASE DropHandle
  <2>1. Delivered' = received
    BY <1>0, <1>5, ConcatEmptySeq DEF DropHandle, Delivered
  <2>2. channel \o rest \in Seq(Events)
    BY <1>0, ConcatProperties
  <2>3. PICK longer \in Seq(Events) : longer = channel \o rest
    BY <2>2
  <2>4. handed' = received \o longer
    <3>1. Delivered \o rest = received \o (channel \o rest)
      BY AfterDelivered, Zenon
    <3> QED
      BY <1>5, <2>3, <3>1 DEF DropHandle, HandedRest, Delivered
  <2>5. HandedRest(longer)'
    BY <1>5, <2>1, <2>4 DEF DropHandle, HandedRest
  <2> QED
    BY <2>5 DEF HandedIsDelivered
<1>6. CASE ~Moving
  <2>1. UNCHANGED <<handed, received, channel>>
    BY <1>6 DEF Next, Poll, Read, Publish, Redeliver, NextTimesOut, Resume,
         NextFails, SendFails, AckEvent, ReceiveEnd, vars, broker
  <2>2. handle' = "open" /\ poller' # "stopped" =>
          /\ handle = "open" /\ poller # "stopped"
          /\ UNCHANGED held
    BY <1>6 DEF Next, Poll, Read, Publish, Redeliver, NextTimesOut, Resume,
         NextFails, SendFails, AckEvent, ReceiveEnd, vars, broker
  <2> QED
    BY <2>1, <2>2, Unmoved
<1>7. QED
  BY <1>1, <1>2, <1>3, <1>4, <1>5, <1>6

\* An acknowledged event was delivered while the handle was open.
LEMMA StepAcked == IInv /\ [Next]_vars => AckedIsDelivered'
<1> SUFFICES ASSUME IInv, [Next]_vars, handle' # "dropped"
             PROVE  acked' \subseteq Range(Delivered')
  BY DEF AckedIsDelivered, Delivered
<1> USE DEF IInv
<1>0. /\ received \in Seq(Events) /\ channel \in Seq(Events)
      /\ held \in Seq(Events) /\ Delivered \in Seq(Events)
  <2>1. /\ received \in Seq(Events) /\ channel \in Seq(Events)
        /\ held \in Seq(Events)
    BY WellFormed DEF TypeOK
  <2> QED
    BY <2>1, ConcatProperties DEF Delivered
<1>1. CASE AckEvent
  <2>1. handle = "open" /\ handed # <<>> /\ held = <<>>
    BY <1>1 DEF AckEvent, Control, TypeOK
  <2>2. handed = Delivered
    BY <1>0, <1>1, <2>1, ConcatEmptySeq
       DEF AckEvent, HandedIsDelivered, HandedRest
  <2>3. Last(handed) \in Range(Delivered)
    BY <1>0, <2>1, <2>2, LastInRange
  <2>4. acked \subseteq Range(Delivered) /\ Delivered' = Delivered
    BY <1>1, <2>1 DEF AckEvent, AckedIsDelivered, Delivered
  <2> QED
    BY <1>1, <2>3, <2>4 DEF AckEvent
<1>2. CASE Send
  <2>1. Delivered' = Delivered \o held
    <3>1. Delivered \o held = received \o (channel \o held)
      BY <1>0, AfterDelivered, Zenon
    <3> QED
      BY <1>2, <3>1 DEF Send, Delivered
  <2>2. Range(Delivered) \subseteq Range(Delivered')
    BY <1>0, <2>1, RangeConcatenation
  <2> QED
    BY <1>2, <2>2 DEF Send, AckedIsDelivered, broker
<1>3. CASE Receive
  <2>1. Delivered' = Delivered
    BY <1>0, <1>3, MoveHead DEF Receive, Delivered
  <2> QED
    BY <1>3, <2>1 DEF Receive, AckedIsDelivered, broker
<1>4. CASE ~(AckEvent \/ Send \/ Receive)
  <2>1. UNCHANGED <<acked, received, channel>> /\ handle # "dropped"
    BY <1>4 DEF Next, Poll, Read, Publish, Redeliver, Subscribe, NextEvent,
         NextTimesOut, Resume, NextFails, SendFails, ReceiveEnd, DropHandle,
         vars, broker, Control
  <2> QED
    BY <2>1 DEF AckedIsDelivered, Delivered
<1>5. QED
  BY <1>1, <1>2, <1>3, <1>4

---------------------------------------------------------------------------
(* The theorems *)

LEMMA AlwaysIInv == Spec => []IInv
<1>1. IInv /\ [Next]_vars => IInv'
  BY StepTypeOK, StepControl, StepHanded, StepAcked DEF IInv
<1> QED
  BY InitIInv, <1>1, PTL DEF Spec

\* The state has its types: the channel never holds more than its capacity.
THEOREM TypeCorrect == Spec => []TypeOK
<1>1. IInv => TypeOK
  BY DEF IInv
<1> QED
  BY <1>1, AlwaysIInv, PTL

\* Between broker and subscriber of an open handle nothing is lost, reordered
\* or duplicated while the task runs.
THEOREM NothingIsSkipped == Spec => []NothingSkipped
<1>1. IInv => NothingSkipped
  BY DEF IInv, HandedIsDelivered, HandedRest, NothingSkipped
<1> QED
  BY <1>1, AlwaysIInv, PTL

\* What the subscriber has read is a prefix of what the broker handed out,
\* also after the task has ended or the handle is dropped.
THEOREM ReadsAreAPrefix == Spec => []ReadIsPrefix
<1>1. IInv => ReadIsPrefix
  <2> SUFFICES ASSUME IInv PROVE ReadIsPrefix
    OBVIOUS
  <2>1. PICK rest \in Seq(Events) : handed = (received \o channel) \o rest
    BY DEF IInv, HandedIsDelivered, HandedRest, Delivered
  <2>2. received \in Seq(Events) /\ channel \in Seq(Events)
    BY WellFormed DEF IInv, TypeOK
  <2>3. channel \o rest \in Seq(Events)
    BY <2>2, ConcatProperties
  <2>4. handed = received \o (channel \o rest)
    BY <2>1, <2>2, ConcatAssociative
  <2> QED
    BY <2>2, <2>3, <2>4, PrefixOfConcat DEF ReadIsPrefix
<1> QED
  BY <1>1, AlwaysIInv, PTL

\* In AckMode::Auto the task acknowledges no event that is not with the
\* subscriber or in the channel, as long as the handle is not dropped.
THEOREM AcksFollowDelivery == Spec => []AckedIsDelivered
<1>1. IInv => AckedIsDelivered
  BY DEF IInv
<1> QED
  BY <1>1, AlwaysIInv, PTL

=========================================================================
