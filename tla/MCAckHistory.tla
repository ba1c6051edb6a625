----------------------------- MODULE MCAckHistory -----------------------------
(***************************************************************************)
(* One category for TLC, gated at MEDIUM (2), on a controller whose clock  *)
(* is one tick behind HA's.                                                *)
(***************************************************************************)
EXTENDS AckHistory, CoordinatorProperties, TLC

CONSTANTS power, k1

MCOne == {power}
MCGate == power :> 2
MCBehind == -1
=============================================================================
