---------------------- MODULE MCDryRunSubscription ----------------------
(* An instance of DryRunSubscription for TLC. *)
EXTENDS DryRunSubscription

CONSTANTS e1, e2, e3, e4

=========================================================================
