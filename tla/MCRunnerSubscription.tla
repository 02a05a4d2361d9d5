---------------------- MODULE MCRunnerSubscription ----------------------
(* An instance of RunnerSubscription for TLC. *)
EXTENDS RunnerSubscription

CONSTANTS e1, e2, bad

=========================================================================
