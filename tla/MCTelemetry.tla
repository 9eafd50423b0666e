---------------------------- MODULE MCTelemetry -----------------------------
(* Telemetry with the constant values of MCDelivery. *)
EXTENDS Telemetry, MCDelivery

\* An error channel of one slot, and no notification channel.
ErrorsOnly == [c \in Channels |-> IF c = "failure" THEN 1 ELSE 0]
=============================================================================
