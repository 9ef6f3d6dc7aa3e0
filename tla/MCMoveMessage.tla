--------------------------- MODULE MCMoveMessage ---------------------------
(* Instances of MoveMessage for TLC. *)
EXTENDS MoveMessage, TLC

CONSTANTS m1, m2

\* m1 is the user's; m2 was marked deleted by another mail program.
TwoArrived == m1 :> 1 @@ m2 :> 2
OneArrived == m1 :> 1

DeviceSymmetry == Permutations(Devices)
=============================================================================
