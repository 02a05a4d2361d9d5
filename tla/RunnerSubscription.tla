----------------------- MODULE RunnerSubscription -----------------------
(***************************************************************************)
(* One subscription of RunnerBrokerProvider (src/src/runner.rs): subscribe *)
(* opens a broker subscription and spawns a task that polls it, converts   *)
(* each event, sends it through a bounded channel to the handle the caller *)
(* holds, and in AckMode::Auto acknowledges it to the broker.  The broker  *)
(* (the WIT client of the host) delivers at least once: what it handed out *)
(* and nobody acknowledged may come again, and any answer may be an error. *)
(*                                                                         *)
(* Poll timeouts and the pause of 10 ms are steps, not durations.          *)
(***************************************************************************)
EXTENDS Naturals, Sequences, SequencesExt

CONSTANTS
  Events,          \* events published on the topic, each at most once
  Malformed,       \* those from_wit_event cannot convert
  Capacity,        \* of the channel, 64 in the code
  MaxRedeliveries  \* bound on how often the broker delivers again

ASSUME SubscriptionAssumption ==
  /\ Malformed \subseteq Events
  /\ Capacity \in Nat \ {0}
  /\ MaxRedeliveries \in Nat

VARIABLES
  ackMode,      \* SubscriptionOptions.ack_mode
  pending,      \* broker: events waiting for next_event, oldest first
  published,    \* broker: events ever published
  acked,        \* broker: events acknowledged
  redelivered,  \* broker: deliveries made again so far
  handed,       \* history: what next_event has handed out, in order
  poller,       \* where the spawned task is
  held,         \* the converted event the task holds, a sequence of one or none
  channel,      \* mpsc channel between the task and the handle
  handle,       \* "none" before subscribe, then "open", "ended" or "dropped"
  received      \* what SubscriptionHandle::next has returned, in order

vars == <<ackMode, pending, published, acked, redelivered, handed,
          poller, held, channel, handle, received>>

broker == <<pending, published, acked, redelivered>>

Pollers == {"absent", "polling", "pausing", "sending", "acking", "stopped"}

TypeOK ==
  /\ ackMode \in {"Manual", "Auto"}
  /\ pending \in Seq(Events)
  /\ published \subseteq Events
  /\ acked \subseteq Events
  /\ redelivered \in 0 .. MaxRedeliveries
  /\ handed \in Seq(Events)
  /\ poller \in Pollers
  /\ held \in Seq(Events \ Malformed) /\ Len(held) <= 1
  /\ channel \in Seq(Events \ Malformed) /\ Len(channel) <= Capacity
  /\ handle \in {"none", "open", "ended", "dropped"}
  /\ received \in Seq(Events \ Malformed)

Init ==
  /\ ackMode \in {"Manual", "Auto"}
  /\ pending = <<>> /\ published = {} /\ acked = {} /\ redelivered = 0
  /\ handed = <<>>
  /\ poller = "absent" /\ held = <<>> /\ channel = <<>>
  /\ handle = "none" /\ received = <<>>

---------------------------------------------------------------------------
(* The broker behind the client *)

Publish(e) ==
  /\ e \notin published
  /\ published' = published \cup {e}
  /\ pending' = Append(pending, e)
  /\ UNCHANGED <<ackMode, acked, redelivered, handed, poller, held, channel,
                 handle, received>>

\* An event handed out and not acknowledged is delivered again.
Redeliver(e) ==
  /\ redelivered < MaxRedeliveries
  /\ e \in Range(handed) \ (acked \cup Range(pending))
  /\ redelivered' = redelivered + 1
  /\ pending' = Append(pending, e)
  /\ UNCHANGED <<ackMode, published, acked, handed, poller, held, channel,
                 handle, received>>

---------------------------------------------------------------------------
(* RunnerBrokerProvider::subscribe and the task it spawns *)

\* client.subscribe is answered, the channel made, the task spawned.  (If the
\* client answers with an error nothing is created.)
Subscribe ==
  /\ poller = "absent"
  /\ poller' = "polling"
  /\ handle' = "open"
  /\ UNCHANGED <<ackMode, broker, handed, held, channel, received>>

\* Mutant: a malformed event is skipped without a trace.
NextEventSkipping ==
  /\ poller = "polling"
  /\ pending # <<>>
  /\ pending' = Tail(pending)
  /\ handed' = Append(handed, Head(pending))
  /\ IF Head(pending) \in Malformed
     THEN UNCHANGED <<poller, held>>
     ELSE poller' = "sending" /\ held' = <<Head(pending)>>
  /\ UNCHANGED <<ackMode, published, acked, redelivered, channel, handle, received>>

\* Mutant: the event is acknowledged as soon as it is there.
NextEventAcking ==
  /\ poller = "polling"
  /\ pending # <<>>
  /\ pending' = Tail(pending)
  /\ handed' = Append(handed, Head(pending))
  /\ acked' = acked \cup {Head(pending)}
  /\ IF Head(pending) \in Malformed
     THEN poller' = "stopped" /\ UNCHANGED held
     ELSE poller' = "sending" /\ held' = <<Head(pending)>>
  /\ UNCHANGED <<ackMode, published, redelivered, channel, handle, received>>

\* next_event returns an event: a malformed one ends the task
NextEvent ==
  /\ poller = "polling"
  /\ pending # <<>>
  /\ pending' = Tail(pending)
  /\ handed' = Append(handed, Head(pending))
  /\ IF Head(pending) \in Malformed
     THEN poller' = "stopped" /\ UNCHANGED held
     ELSE poller' = "sending" /\ held' = <<Head(pending)>>
  /\ UNCHANGED <<ackMode, published, acked, redelivered, channel, handle, received>>

\* next_event times out with nothing to deliver
NextTimesOut ==
  /\ poller = "polling"
  /\ pending = <<>>
  /\ poller' = "pausing"
  /\ UNCHANGED <<ackMode, broker, handed, held, channel, handle, received>>

Resume ==
  /\ poller = "pausing"
  /\ poller' = "polling"
  /\ UNCHANGED <<ackMode, broker, handed, held, channel, handle, received>>

\* next_event fails: the task ends
NextFails ==
  /\ poller = "polling"
  /\ poller' = "stopped"
  /\ UNCHANGED <<ackMode, broker, handed, held, channel, handle, received>>

\* Mutant: try_send, which drops the event when the channel is full.
SendLossy ==
  /\ poller = "sending"
  /\ handle = "open"
  /\ channel' = IF Len(channel) < Capacity THEN channel \o held ELSE channel
  /\ held' = <<>>
  /\ poller' = IF ackMode = "Auto" THEN "acking" ELSE "polling"
  /\ UNCHANGED <<ackMode, broker, handed, handle, received>>

\* tx.send completes once the channel has room
Send ==
  /\ poller = "sending"
  /\ handle = "open"
  /\ Len(channel) < Capacity
  /\ channel' = channel \o held
  /\ held' = <<>>
  /\ poller' = IF ackMode = "Auto" THEN "acking" ELSE "polling"
  /\ UNCHANGED <<ackMode, broker, handed, handle, received>>

\* Mutant: a closed channel is not noticed and polling goes on.
SendFailsUnnoticed ==
  /\ poller = "sending"
  /\ handle = "dropped"
  /\ held' = <<>>
  /\ poller' = "polling"
  /\ UNCHANGED <<ackMode, broker, handed, channel, handle, received>>

\* tx.send fails because the handle is gone: the task ends
SendFails ==
  /\ poller = "sending"
  /\ handle = "dropped"
  /\ held' = <<>>
  /\ poller' = "stopped"
  /\ UNCHANGED <<ackMode, broker, handed, channel, handle, received>>

\* ack_event, whose answer is ignored: the acknowledgement may be lost
AckEvent ==
  /\ poller = "acking"
  /\ poller' = "polling"
  /\ \/ acked' = acked \cup {Last(handed)}
     \/ UNCHANGED acked
  /\ UNCHANGED <<ackMode, pending, published, redelivered, handed, held,
                 channel, handle, received>>

---------------------------------------------------------------------------
(* The subscriber *)

\* Mutant: the newest event comes first.
ReceiveNewest ==
  /\ handle = "open"
  /\ channel # <<>>
  /\ received' = Append(received, Last(channel))
  /\ channel' = Front(channel)
  /\ UNCHANGED <<ackMode, broker, handed, poller, held, handle>>

\* SubscriptionHandle::next returns an event
Receive ==
  /\ handle = "open"
  /\ channel # <<>>
  /\ received' = Append(received, Head(channel))
  /\ channel' = Tail(channel)
  /\ UNCHANGED <<ackMode, broker, handed, poller, held, handle>>

\* Mutant: a sender outlives the task, so the channel never closes.
ReceiveEndSpareSender ==
  /\ handle = "open"
  /\ channel = <<>>
  /\ poller = "absent"
  /\ handle' = "ended"
  /\ UNCHANGED <<ackMode, broker, handed, poller, held, channel, received>>

\* SubscriptionHandle::next returns None: the task has dropped its sender
\* and the channel is drained
ReceiveEnd ==
  /\ handle = "open"
  /\ channel = <<>>
  /\ poller = "stopped"
  /\ handle' = "ended"
  /\ UNCHANGED <<ackMode, broker, handed, poller, held, channel, received>>

\* The subscriber drops the handle: what is in the channel is gone.
DropHandle ==
  /\ handle = "open"
  /\ handle' = "dropped"
  /\ channel' = <<>>
  /\ UNCHANGED <<ackMode, broker, handed, poller, held, received>>

---------------------------------------------------------------------------
Poll ==
  \/ NextEvent \/ NextTimesOut \/ Resume \/ Send \/ SendFails \/ AckEvent

Read == Receive \/ ReceiveEnd

Next ==
  \/ \E e \in Events : Publish(e) \/ Redeliver(e)
  \/ Subscribe \/ NextFails \/ Poll \/ Read \/ DropHandle

Spec == Init /\ [][Next]_vars

\* The spawned task is polled by the runtime and the client answers; the
\* subscriber reads until it drops the handle.
FairSpec == Spec /\ WF_vars(Poll) /\ WF_vars(Read)

---------------------------------------------------------------------------
(* Properties *)

Delivered == received \o channel

\* While the handle is open and the task runs, what the broker handed out is,
\* in order and without a gap, what the subscriber has read, then what waits
\* in the channel, then the event the task holds: nothing is skipped,
\* reordered or duplicated between broker and subscriber, full channel or not.
NothingSkipped ==
  handle = "open" /\ poller # "stopped" => handed = Delivered \o held

\* The subscriber of an open handle never misses an event that precedes one
\* it has read, even after the task has ended.
ReadIsPrefix == IsPrefix(received, handed)

\* An acknowledged event is with the subscriber or in its channel, as long as
\* the handle is not dropped: the task acknowledges after the send.
AckedIsDelivered ==
  handle # "dropped" => acked \subseteq Range(Delivered)

\* Every event published is read, unless the handle is dropped or the task
\* ends (an error of the client, or a malformed event).
EventsArrive ==
  \A e \in Events :
    (e \in published /\ handle = "open") ~>
      (e \in Range(received) \/ handle # "open" \/ poller = "stopped")

\* A subscriber that keeps reading learns that the task has ended, after it
\* has read all that was sent.
EndIsSeen ==
  (poller = "stopped" /\ handle = "open") ~> (handle # "open")

\* A task whose handle is gone ends when an event is there for it.  (With no
\* event it polls on for ever.)
DropIsNoticed ==
  (handle = "dropped" /\ pending # <<>>) ~> (poller = "stopped")

=========================================================================
