--------------------------- MODULE MCTriggerDedup ---------------------------
(* Constants of the runs that model-check TriggerDedup.                    *)
EXTENDS TriggerDedup

CONSTANTS n1, n2, d1, d2, d3

PatientSender == [sender |-> "patient", throttled |-> FALSE, timely |-> TRUE]
Flood == [sender |-> "duplicating", throttled |-> TRUE, timely |-> TRUE]

BothSenders == {PatientSender, Flood}
=============================================================================
