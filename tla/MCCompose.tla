----------------------------- MODULE MCCompose -----------------------------
(* Instances of Compose for TLC. *)
EXTENDS Compose
=============================================================================
