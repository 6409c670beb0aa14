----------------------------- MODULE MCDelivery -----------------------------
(* Delivery for TLC: the sinks and what is routed to them.                  *)
EXTENDS Delivery

FileAndWebhook == <<"file", "webhook">>

EverythingEverywhere == [k \in 1..2 |-> Verdicts]

\* The file is for harmful media only.
AlertsToFile == [k \in 1..2 |-> IF k = 1 THEN {"flag", "block"} ELSE Verdicts]
=============================================================================
