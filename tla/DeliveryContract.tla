-------------------------- MODULE DeliveryContract --------------------------
(***************************************************************************)
(* What the durable inbound dedup promises about ONE delivery id, without  *)
(* rows, leases, requests or processes: the handler of the id is run by    *)
(* one caller at a time, a run that fails or dies leaves the id open, and  *)
(* a run that succeeds closes it for a window of Window time units.        *)
(* TriggerDedup.tla implements this contract.                              *)
(***************************************************************************)
EXTENDS Naturals

CONSTANT Window      \* how long a handled delivery is remembered

VARIABLES phase,     \* "open", "running" or "handled"
          left       \* what is left of the window of a handled delivery
contractVars == <<phase, left>>

ContractInit == phase = "open" /\ left = 0

\* A delivery may be taken up when nobody runs it and no window protects it.
Begin ==
  /\ phase # "running"
  /\ left = 0
  /\ phase' = "running" /\ UNCHANGED left

Succeed ==
  /\ phase = "running"
  /\ phase' = "handled" /\ left' = Window

Fail ==
  /\ phase = "running"
  /\ phase' = "open" /\ UNCHANGED left

Elapse ==
  /\ left > 0
  /\ left' = left - 1 /\ UNCHANGED phase

Forget ==
  /\ phase = "handled" /\ left = 0
  /\ phase' = "open" /\ UNCHANGED left

ContractNext == Begin \/ Succeed \/ Fail \/ Elapse \/ Forget

ContractSpec == ContractInit /\ [][ContractNext]_contractVars
=============================================================================
