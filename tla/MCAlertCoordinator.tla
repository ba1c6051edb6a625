-------------------------- MODULE MCAlertCoordinator --------------------------
(***************************************************************************)
(* Two categories for TLC, or one, without a minimum severity, and a       *)
(* controller whose clock is one tick behind HA's.                         *)
(***************************************************************************)
EXTENDS CoordinatorProperties, TLC

CONSTANTS power, wan, k1

MCBoth == {power, wan}
MCOne == {power}

MCNoGate == [c \in {} |-> 0]
MCBehind == -1
=============================================================================
