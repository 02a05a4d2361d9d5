-------------------------- MODULE MCInstallSync --------------------------
(* Instances of InstallSync for TLC. *)
EXTENDS InstallSync

CONSTANTS w1, w2, i1, i2

\* One worker retries, the other does not.
MCRetries == [w \in Workers |-> IF w = w1 THEN 1 ELSE 0]

\* Provisioning runs once, for the first of them.
MCWebhooks == [i \in Installs |-> IF i = i1 THEN 1 ELSE 0]

=========================================================================
