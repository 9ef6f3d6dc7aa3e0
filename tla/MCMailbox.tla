----------------------------- MODULE MCMailbox -----------------------------
(* Instances of Mailbox for TLC. *)
EXTENDS Mailbox, TLC

\* Devices are interchangeable; used only where no liveness is checked.
DeviceSymmetry == Permutations(Devices)
=============================================================================
