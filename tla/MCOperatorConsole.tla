-------------------------- MODULE MCOperatorConsole --------------------------
(***************************************************************************)
(* Instance of OperatorConsole for TLC: two actions, a ULD, an alert, a    *)
(* notification, a seed ULD and a seed alert.                              *)
(***************************************************************************)
EXTENDS OperatorConsole, TLC

CONSTANTS a1, a2, u1, x1, n1, uld1, alert1

AnyAction == Permutations({a1, a2})
=============================================================================
