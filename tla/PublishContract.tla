------------------------- MODULE PublishContract -------------------------
(***************************************************************************)
(* What a caller of EventBus::publish may rely on, with no provider, no    *)
(* retry loop and no idempotency store in sight.  Every call ends in one   *)
(* of four ways; of the calls that carry the same identity at most one is  *)
(* ever handed to a provider; a call is told "delivered" only after a      *)
(* provider has a copy, and a letter on the dead-letter topic only exists  *)
(* for a call that is not told "delivered".                                *)
(***************************************************************************)
EXTENDS Naturals

CONSTANTS
  Calls,     \* calls of publish
  Barred,    \* calls the configuration (ACL, routing) refuses
  Rivals,    \* for each call, the others with its tenant and idempotency key
  Budget     \* for each call, how often it may be handed to its provider

VARIABLES
  phase,    \* "new", "open" or how the call ended
  copies,   \* how many times a provider has taken the event
  letters   \* how many times a provider has taken it as a dead letter

vars == <<phase, copies, letters>>

Phases == {"new", "open", "delivered", "failed", "refused", "abandoned"}

Claimed(c) == phase[c] \notin {"new", "refused"}

Init ==
  /\ phase = [c \in Calls |-> "new"]
  /\ copies = [c \in Calls |-> 0]
  /\ letters = [c \in Calls |-> 0]

End(c, how) ==
  /\ phase' = [phase EXCEPT ![c] = how]
  /\ UNCHANGED <<copies, letters>>

\* A call is refused for its configuration or for a claim of its identity.
Refuse(c) ==
  /\ phase[c] = "new"
  /\ c \in Barred \/ \E d \in Rivals[c] : Claimed(d)
  /\ End(c, "refused")

Open(c) ==
  /\ phase[c] = "new"
  /\ c \notin Barred
  /\ \A d \in Rivals[c] : ~Claimed(d)
  /\ End(c, "open")

Deliver(c) ==
  /\ phase[c] = "open" /\ letters[c] = 0 /\ copies[c] < Budget[c]
  /\ copies' = [copies EXCEPT ![c] = @ + 1]
  /\ UNCHANGED <<phase, letters>>

DeadLetter(c) ==
  /\ phase[c] = "open" /\ letters[c] = 0
  /\ letters' = [letters EXCEPT ![c] = 1]
  /\ UNCHANGED <<phase, copies>>

Succeed(c) ==
  /\ phase[c] = "open" /\ copies[c] > 0 /\ letters[c] = 0
  /\ End(c, "delivered")

GiveUp(c) ==
  /\ phase[c] = "open"
  /\ \E how \in {"failed", "abandoned"} : End(c, how)

Next ==
  \E c \in Calls :
    \/ Refuse(c) \/ Open(c) \/ Deliver(c) \/ DeadLetter(c)
    \/ Succeed(c) \/ GiveUp(c)

Spec == Init /\ [][Next]_vars

==========================================================================
