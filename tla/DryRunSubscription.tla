----------------------- MODULE DryRunSubscription -----------------------
(***************************************************************************)
(* One subscription of DryRunProvider (src/src/e2e.rs), the in-process     *)
(* broker of the end-to-end harness.  publish appends to a list and sends  *)
(* to a broadcast channel; subscribe replays a snapshot of the list into   *)
(* the bounded channel of the handle before it returns the handle, then    *)
(* attaches to the broadcast and spawns a task that forwards from it.  A   *)
(* forwarder that falls behind the broadcast by more than its capacity     *)
(* gets an error and ends.                                                 *)
(*                                                                         *)
(* Publishers run on other threads: the append, the send and the two ends  *)
(* of subscribe are separate steps.                                        *)
(***************************************************************************)
EXTENDS Naturals, Sequences, SequencesExt

CONSTANTS
  Events,    \* events to publish, each by a call of its own
  Capacity,  \* of the handle's channel, 64 in the code
  Ring       \* of the broadcast channel, 32 in the code

ASSUME DryRunAssumption == Capacity \in Nat \ {0} /\ Ring \in Nat \ {0}

VARIABLES
  deliverExisting,  \* SubscriptionOptions.deliver_existing
  published,        \* DryRunProvider.published
  sent,             \* what has been sent to the broadcast channel, in order
  phase,            \* where the call of subscribe or its forwarder is
  snapshot,         \* history: the copy subscribe took of published
  replayed,         \* how much of the snapshot has been sent to the channel
  joined,           \* Len(sent) when the forwarder attached
  cursor,           \* how much of sent the forwarder has received
  held,             \* the event the forwarder holds, a sequence of one or none
  channel,          \* mpsc channel behind the handle
  dropped,          \* the caller has dropped the handle
  received          \* what the caller has read

vars == <<deliverExisting, published, sent, phase, snapshot, replayed, joined,
          cursor, held, channel, dropped, received>>

subscription == <<phase, snapshot, replayed, joined, cursor, held>>

Running == phase \in {"forwarding", "sending"}

Init ==
  /\ deliverExisting \in BOOLEAN
  /\ published = <<>> /\ sent = <<>>
  /\ phase = "none" /\ snapshot = <<>> /\ replayed = 0
  /\ joined = 0 /\ cursor = 0 /\ held = <<>>
  /\ channel = <<>> /\ dropped = FALSE /\ received = <<>>

---------------------------------------------------------------------------
(* DryRunProvider::publish *)

Push(e) ==
  /\ e \notin Range(published)
  /\ published' = Append(published, e)
  /\ UNCHANGED <<deliverExisting, sent, subscription, channel, dropped, received>>

\* the broadcast, after the lock on published is released; its answer (no
\* receiver) is ignored
Broadcast(e) ==
  /\ e \in Range(published) \ Range(sent)
  /\ sent' = Append(sent, e)
  /\ UNCHANGED <<deliverExisting, published, subscription, channel, dropped, received>>

---------------------------------------------------------------------------
(* DryRunProvider::subscribe *)

\* the channel is made and, with deliver_existing, the list is copied
Subscribe ==
  /\ phase = "none"
  /\ phase' = "replaying"
  /\ snapshot' = IF deliverExisting THEN published ELSE <<>>
  /\ UNCHANGED <<deliverExisting, published, sent, replayed, joined, cursor,
                 held, channel, dropped, received>>

\* Mutant: one place of the channel stays reserved.
ReplaySpareRoom ==
  /\ phase = "replaying"
  /\ replayed < Len(snapshot)
  /\ Len(channel) + 1 < Capacity
  /\ channel' = Append(channel, snapshot[replayed + 1])
  /\ replayed' = replayed + 1
  /\ UNCHANGED <<deliverExisting, published, sent, phase, snapshot, joined,
                 cursor, held, dropped, received>>

\* The next event of the snapshot goes to the channel once it has room; the
\* handle that would drain it is still with this call.
Replay ==
  /\ phase = "replaying"
  /\ replayed < Len(snapshot)
  /\ Len(channel) < Capacity
  /\ channel' = Append(channel, snapshot[replayed + 1])
  /\ replayed' = replayed + 1
  /\ UNCHANGED <<deliverExisting, published, sent, phase, snapshot, joined,
                 cursor, held, dropped, received>>

\* Mutant: the forwarder starts from what was sent first.
AttachFromStart ==
  /\ phase = "replaying"
  /\ replayed = Len(snapshot)
  /\ phase' = "forwarding"
  /\ joined' = Len(sent) /\ cursor' = 0
  /\ UNCHANGED <<deliverExisting, published, sent, snapshot, replayed, held,
                 channel, dropped, received>>

\* sender.subscribe, the task is spawned, the handle returned: the task sees
\* what is sent from now on
Attach ==
  /\ phase = "replaying"
  /\ replayed = Len(snapshot)
  /\ phase' = "forwarding"
  /\ joined' = Len(sent) /\ cursor' = Len(sent)
  /\ UNCHANGED <<deliverExisting, published, sent, snapshot, replayed, held,
                 channel, dropped, received>>

Lagging == Len(sent) - cursor > Ring

\* Mutant: a forwarder that fell behind goes on with the oldest event kept.
RecvSkipping ==
  /\ phase = "forwarding"
  /\ cursor < Len(sent)
  /\ LET next == IF Lagging THEN Len(sent) - Ring + 1 ELSE cursor + 1 IN
     /\ held' = <<sent[next]>>
     /\ cursor' = next
  /\ phase' = "sending"
  /\ UNCHANGED <<deliverExisting, published, sent, snapshot, replayed, joined,
                 channel, dropped, received>>

\* rx.recv returns the next event
Recv ==
  /\ phase = "forwarding"
  /\ cursor < Len(sent)
  /\ ~Lagging
  /\ held' = <<sent[cursor + 1]>>
  /\ cursor' = cursor + 1
  /\ phase' = "sending"
  /\ UNCHANGED <<deliverExisting, published, sent, snapshot, replayed, joined,
                 channel, dropped, received>>

\* rx.recv returns Lagged: the loop ends
RecvLagged ==
  /\ phase = "forwarding"
  /\ Lagging
  /\ phase' = "ended"
  /\ UNCHANGED <<deliverExisting, published, sent, snapshot, replayed, joined,
                 cursor, held, channel, dropped, received>>

\* Mutant: try_send, and what does not fit is lost.
ForwardLossy ==
  /\ phase = "sending"
  /\ ~dropped
  /\ channel' = IF Len(channel) < Capacity THEN channel \o held ELSE channel
  /\ held' = <<>>
  /\ phase' = "forwarding"
  /\ UNCHANGED <<deliverExisting, published, sent, snapshot, replayed, joined,
                 cursor, dropped, received>>

\* tx.send completes once the channel has room
Forward ==
  /\ phase = "sending"
  /\ ~dropped
  /\ Len(channel) < Capacity
  /\ channel' = channel \o held
  /\ held' = <<>>
  /\ phase' = "forwarding"
  /\ UNCHANGED <<deliverExisting, published, sent, snapshot, replayed, joined,
                 cursor, dropped, received>>

\* tx.send fails, the handle is gone: the loop ends
ForwardFails ==
  /\ phase = "sending"
  /\ dropped
  /\ held' = <<>>
  /\ phase' = "ended"
  /\ UNCHANGED <<deliverExisting, published, sent, snapshot, replayed, joined,
                 cursor, channel, dropped, received>>

---------------------------------------------------------------------------
(* The caller, who has the handle once subscribe has returned *)

HasHandle == phase \notin {"none", "replaying"} /\ ~dropped

Receive ==
  /\ HasHandle
  /\ channel # <<>>
  /\ received' = Append(received, Head(channel))
  /\ channel' = Tail(channel)
  /\ UNCHANGED <<deliverExisting, published, sent, subscription, dropped>>

DropHandle ==
  /\ HasHandle
  /\ dropped' = TRUE
  /\ channel' = <<>>
  /\ UNCHANGED <<deliverExisting, published, sent, subscription, received>>

---------------------------------------------------------------------------
Work == Replay \/ Attach \/ Recv \/ RecvLagged \/ Forward \/ ForwardFails

Next ==
  \/ \E e \in Events : Push(e) \/ Broadcast(e)
  \/ Subscribe \/ Work \/ Receive \/ DropHandle

Spec == Init /\ [][Next]_vars

\* subscribe and its task are polled; a caller that has the handle reads.
FairSpec == Spec /\ WF_vars(Work) /\ WF_vars(Receive)

---------------------------------------------------------------------------
(* Properties *)

Delivered == received \o channel

\* What the subscriber of a handle has read or can read is, in order and
\* without a gap, the replayed part of the snapshot and then what was sent
\* since the forwarder attached: an event only goes missing when it was sent
\* between the copy of the list and the attachment, or after the end.
ReplayThenLive ==
  ~dropped =>
    Delivered \o held =
      SubSeq(snapshot, 1, replayed) \o SubSeq(sent, joined + 1, cursor)

\* An event comes twice at most, and twice only when its publish was between
\* the append and the broadcast while the subscription was set up.
SeenTwiceOnlyInOverlap ==
  \A i, j \in DOMAIN Delivered : i < j /\ Delivered[i] = Delivered[j] =>
    /\ Delivered[i] \in Range(snapshot)
    /\ Delivered[i] \in Range(SubSeq(sent, joined + 1, Len(sent)))

\* subscribe returns when the snapshot fits the handle's channel.  (When it
\* does not, the call waits for a reader that cannot exist yet.)
SubscribeReturns ==
  phase = "replaying" ~>
    (phase \notin {"none", "replaying"} \/ Len(snapshot) > Capacity)

\* A subscriber that keeps reading gets every event sent after subscribe has
\* returned, or the forwarder was once behind by more than the ring; ending for
\* any other reason would be a loss nobody can see.
LiveEventsArrive ==
  \A e \in Events :
    (Running /\ e \in Range(SubSeq(sent, joined + 1, Len(sent)))) ~>
      (e \in Range(received) \/ dropped \/ Lagging)

=========================================================================
