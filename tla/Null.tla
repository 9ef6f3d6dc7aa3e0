-------------------------------- MODULE Null --------------------------------
(* What is not there: None, SQL's NULL and JavaScript's null. *)
CONSTANT NULL
=============================================================================
